---------------------------- MODULE Spec2Model ----------------------------
(***************************************************************************)
(* State-machine model of the realtime WebRTC demo client:                 *)
(*   - the page component WebRTCClient (src/src/app/page.tsx): its React   *)
(*     state, its refs, the async function initializeWebRTC, the data      *)
(*     channel callbacks, the handler of worker messages, sendMessage and  *)
(*     the unmount cleanup;                                                *)
(*   - the worker (src/src/workers/webrtc.worker.ts): self.onmessage.      *)
(* Strings are sequences of one-character strings, so that concatenation   *)
(* (JavaScript +) is sequence concatenation.  JSON values are tagged       *)
(* records, so that typeof and truthiness are computed, not assumed.       *)
(* Of the debug log the state keeps what the control-channel handlers      *)
(* wrote in their latest run; the other entries are not part of the state. *)
(***************************************************************************)
EXTENDS Naturals, Sequences, FiniteSets, Bags, TLC

\* ------------------------------------------------------------- bounds
\* Inputs from outside in one run: inbound control-channel frames plus
\* calls of sendMessage.
MaxInputs == 3

VARIABLES
    \* React state of WebRTCClient
    status, error, isDataChannelReady, messages, transcripts,
    activeFunctions, completedFunctions, inputMessage,
    \* refs and the platform objects behind them
    pc, dc, mic, workerAlive, closeEvent,
    \* position of the async function initializeWebRTC
    initPc,
    \* the token parameter of initializeWebRTC (captured by its closures)
    token,
    \* message queues page -> worker and worker -> page
    m2w, w2m,
    \* pending timers: function invocations in their 1000 ms delay, and
    \* MESSAGE_FORMATTED handlers in their 100 ms delay
    running, pendingResp,
    \* frames that went out on the control channel, in order
    sent,
    \* history: what happened so far (read by the properties only)
    nFrames, nSubmits, lastEvent, sinceUser, accepted, executed, thrown,
    failedSends, sigRejected, tokenMissing, workerPosted, unmounted,
    \* the kinds of the debug-log entries written by the latest run of
    \* dc.onmessage or of the callbacks of an invocation
    logged,
    \* the inputs that took a branch with a state update, in arrival order:
    \* text deltas, transcripts, accepted function calls, user messages
    arrived,
    \* how often each step of the offer/answer exchange was taken
    handshake,
    \* the tokens the worker put into an Authorization header, in order
    bearer,
    \* the tokens that appeared in the text of a debug-log entry
    leaked,
    \* the page with Connect and Disconnect buttons only: its two flags, the
    \* value of isConnected the installed effect cleanup has captured, the
    \* peer connections and data channels that are unclosed and no longer
    \* referenced, the Connect clicks so far
    isConnected, isConnecting, effectIsConnected, orphanPc, orphanDc,
    nConnects,
    \* the function registry: the entries of its Map in the Map's order, and
    \* the register calls made so far
    functions, registerCalls,
    \* the session route: the upstream requests made and the requests
    \* served, each with its environment, the upstream outcome and the reply
    upstreamCalls, served

pageState == <<status, error, isDataChannelReady, messages, transcripts,
               activeFunctions, completedFunctions>>
platform  == <<pc, dc, mic, workerAlive, closeEvent>>
queues    == <<m2w, w2m>>
timers    == <<running, pendingResp>>
events    == <<nFrames, nSubmits, lastEvent, sinceUser, accepted, executed,
               thrown, failedSends, sigRejected, tokenMissing, workerPosted,
               unmounted,
               logged, arrived, bearer, leaked>>
history   == <<events, handshake>>
variant   == <<isConnected, isConnecting, effectIsConnected, orphanPc,
               orphanDc, nConnects>>
registry  == <<functions, registerCalls>>
route     == <<upstreamCalls, served>>
vars == <<pageState, platform, initPc, token, variant, registry, route,
          inputMessage, queues, timers, sent, history>>

\* ------------------------------------------------------------- values
NULL == [t |-> "null"]
Str(s) == [t |-> "str", v |-> s]
Num == [t |-> "num"]
IsString(x) == x.t = "str"

Last(s) == s[Len(s)]
Front(s) == SubSeq(s, 1, Len(s) - 1)

RECURSIVE Flatten(_)
Flatten(ss) == IF ss = <<>> THEN <<>> ELSE Head(ss) \o Flatten(Tail(ss))

Ids == {"a1", "a2"}
Names == {"get_weather", "other"}

\* JavaScript truthiness of a value that is absent, null or a string.
Truthy(x) == x.t = "str" /\ x.v # ""

\* ------------------------------------------------------------- worker
\* What the two HTTP exchanges can answer (the environment's choice).
\* /api/session: the fetch or the JSON decoding throws (with any message,
\* also the empty one), or the JSON has client_secret.value absent, empty
\* or set.
TokenResponses ==
    { [kind |-> "throw", message |-> m, secret |-> NULL] :
          m \in {"", "Failed to fetch"} }
    \cup { [kind |-> "json", message |-> "", secret |-> v] :
          v \in {NULL, Str(""), Str("ek_token")} }
\* The signaling endpoint: a status, ok for 2xx, and a body (the answer
\* SDP on success: empty, well formed or not).
SdpResponses ==
    { [ok |-> FALSE, code |-> "401", body |-> "unauthorized"],
      [ok |-> FALSE, code |-> "500", body |-> ""] }
    \cup { [ok |-> TRUE, code |-> "200", body |-> b] :
          b \in {"", "v=0 answer", "garbage"} }

\* A plausible slip: the check of client_secret.value is missing.
getSessionToken_NoValidation(resp) ==
    IF resp.kind = "throw"
    THEN [threw |-> TRUE, message |-> resp.message, value |-> NULL]
    ELSE [threw |-> FALSE, message |-> "", value |-> resp.secret]

\* getSessionToken: the token, or the exception it rethrows.
getSessionToken(resp) ==
    IF resp.kind = "throw"
    THEN [threw |-> TRUE, message |-> resp.message, value |-> NULL]
    ELSE IF ~Truthy(resp.secret)
    THEN [threw |-> TRUE, message |-> "Failed to get valid session token",
          value |-> NULL]
    ELSE [threw |-> FALSE, message |-> "", value |-> resp.secret]

\* A plausible slip: the non-2xx check is missing, the error body is
\* handed on as the answer.
getRemoteDescription_NoOkCheck(resp) ==
    [threw |-> FALSE, message |-> "", value |-> Str(resp.body)]

\* getRemoteDescription: the answer body, or the exception thrown on a
\* non-2xx status; its message embeds the status and the body.
getRemoteDescription(resp) ==
    IF ~resp.ok
    THEN [threw |-> TRUE,
          message |-> "Failed to get remote description: " \o resp.code
                          \o " - " \o resp.body,
          value |-> NULL]
    ELSE [threw |-> FALSE, message |-> "", value |-> Str(resp.body)]

\* The debug-log entries of the worker are DEBUG_LOG messages, which the
\* page adds to its own log unchanged.  An entry is the sequence of the
\* parts its template string is put together from.
\* A plausible slip: the success entry of getSessionToken shows the token.
getSessionTokenLog_ShowsToken(resp) ==
    LET r == getSessionToken(resp) IN
    << <<"Requesting session token...">> >>
        \o (IF r.threw THEN << <<"Error: ", r.message>> >>
            ELSE << <<"Received session token: ", r.value.v>> >>)

\* The entries of getSessionToken.
getSessionTokenLog(resp) ==
    LET r == getSessionToken(resp) IN
    << <<"Requesting session token...">> >>
        \o (IF r.threw THEN << <<"Error: ", r.message>> >>
            ELSE << <<"Received session token">> >>)

\* The entries of getRemoteDescription: the offer (its first 100
\* characters) and, on a non-2xx answer, the status and the body are
\* shown; the token goes into the Authorization header only.
getRemoteDescriptionLog(offer, tok, resp) ==
    << <<"Getting remote description...">>,
       <<"Making request to: ", "https://api.openai.com/v1/realtime">>,
       <<"Using offer SDP: ", offer, "...">> >>
        \o (IF ~resp.ok
            THEN << <<"Response error (", resp.code, "): ", resp.body>> >>
            ELSE << <<"Response is OK, getting SDP answer...">>,
                    <<"Received answer from OpenAI">> >>)

\* The tokens the token endpoint can hand out, and those among the parts
\* of log entries.
SessionTokens == {resp.secret.v : resp \in {x \in TokenResponses :
                                              Truthy(x.secret)}}
TokensIn(entries) ==
    {t \in SessionTokens :
        \E i \in 1..Len(entries) : \E j \in 1..Len(entries[i]) :
            entries[i][j] = t}

\* formatUserMessage / formatResponseRequest: the two outbound frames of
\* one user submission.
formatUserMessage(message) ==
    [type |-> "conversation.item.create", role |-> "user", text |-> message]
formatResponseRequest == [type |-> "response.create"]

\* A message of the worker protocol; fields not used by a type are NULL.
WMsg(type, data, err) == [type |-> type, data |-> data, error |-> err]

\* The catch of self.onmessage: every exception becomes one ERROR message
\* carrying the exception's message.
workerCatch(r) == WMsg("ERROR", NULL, r.message)

Post(m) ==
    /\ w2m' = Append(w2m, m)
    /\ workerPosted' = workerPosted \cup {m.type}

\* self.onmessage, INIT_CONNECTION
workerInitConnection ==
    /\ workerAlive /\ m2w # <<>> /\ Head(m2w).type = "INIT_CONNECTION"
    /\ \E resp \in TokenResponses :
          LET r == getSessionToken(resp) IN
          /\ Post(IF r.threw THEN workerCatch(r)
                  ELSE WMsg("TOKEN_RECEIVED", r.value, ""))
          /\ tokenMissing' = (resp.kind = "json" /\ ~Truthy(resp.secret))
          /\ leaked' = leaked \cup TokensIn(getSessionTokenLog(resp))
    /\ m2w' = Tail(m2w)
    /\ UNCHANGED <<handshake, bearer>>
    /\ UNCHANGED <<pageState, platform, initPc, token, variant, registry,
                   route,
                   inputMessage,
                   timers, sent, nFrames, nSubmits, lastEvent, sinceUser,
                   accepted, executed, thrown, failedSends, sigRejected,
                   unmounted, logged, arrived>>

\* self.onmessage, GET_REMOTE_DESCRIPTION (data.content is the offer SDP,
\* always a string here; data.token becomes the bearer of the request)
workerGetRemoteDescription ==
    /\ workerAlive /\ m2w # <<>> /\ Head(m2w).type = "GET_REMOTE_DESCRIPTION"
    /\ \E resp \in SdpResponses :
          LET r == getRemoteDescription(resp) IN
          /\ Post(IF r.threw THEN workerCatch(r)
                  ELSE WMsg("REMOTE_DESCRIPTION_RECEIVED", r.value, ""))
          /\ sigRejected' = (sigRejected \/ ~resp.ok)
          /\ leaked' = leaked \cup
                 TokensIn(getRemoteDescriptionLog(Head(m2w).data.content.v,
                                                  Head(m2w).data.token,
                                                  resp))
    /\ bearer' = Append(bearer, Head(m2w).data.token)
    /\ handshake' = [handshake EXCEPT !.requests = @ + 1]
    /\ m2w' = Tail(m2w)
    /\ UNCHANGED <<pageState, platform, initPc, token, variant, registry,
                   route,
                   inputMessage,
                   timers, sent, nFrames, nSubmits, lastEvent, sinceUser,
                   accepted, executed, thrown, failedSends, tokenMissing,
                   unmounted, logged, arrived>>

\* A plausible slip: the two formatted frames are posted as two
\* MESSAGE_FORMATTED messages.
workerFormatMessage_PostsEach ==
    /\ workerAlive /\ m2w # <<>> /\ Head(m2w).type = "FORMAT_MESSAGE"
    /\ w2m' = w2m \o
           <<WMsg("MESSAGE_FORMATTED",
                  [userMessage |-> formatUserMessage(Head(m2w).data),
                   responseRequest |-> formatResponseRequest], ""),
             WMsg("MESSAGE_FORMATTED",
                  [userMessage |-> formatUserMessage(Head(m2w).data),
                   responseRequest |-> formatResponseRequest], "")>>
    /\ workerPosted' = workerPosted \cup {"MESSAGE_FORMATTED"}
    /\ m2w' = Tail(m2w)
    /\ UNCHANGED <<pageState, platform, initPc, token, variant, registry,
                   route,
                   inputMessage,
                   timers, sent, nFrames, nSubmits, lastEvent, sinceUser,
                   accepted, executed, thrown, failedSends, sigRejected,
                   tokenMissing, bearer, leaked, handshake, unmounted,
                   logged, arrived>>

\* self.onmessage, FORMAT_MESSAGE
workerFormatMessage ==
    /\ workerAlive /\ m2w # <<>> /\ Head(m2w).type = "FORMAT_MESSAGE"
    /\ Post(WMsg("MESSAGE_FORMATTED",
                 [userMessage |-> formatUserMessage(Head(m2w).data),
                  responseRequest |-> formatResponseRequest], ""))
    /\ m2w' = Tail(m2w)
    /\ UNCHANGED <<pageState, platform, initPc, token, variant, registry,
                   route,
                   inputMessage,
                   timers, sent, nFrames, nSubmits, lastEvent, sinceUser,
                   accepted, executed, thrown, failedSends, sigRejected,
                   tokenMissing, bearer, leaked, handshake, unmounted,
                   logged, arrived>>

\* ------------------------------------------------------------- frames
UNDEF == [t |-> "undef"]

\* The text of an inbound frame is either not JSON, or the JSON text of a
\* value.  JSON.parse throws on the first and returns the value of the
\* second.
NotJSON == [json |-> FALSE, value |-> UNDEF]
JSONText(v) == [json |-> TRUE, value |-> v]
JSONParse(text) ==
    IF text.json THEN [threw |-> FALSE, value |-> text.value]
    ELSE [threw |-> TRUE, value |-> UNDEF]

\* An event object; the fields a type does not use are absent (UNDEF).
Event(type, delta, transcript, id, fn) ==
    [t |-> "obj", type |-> type, delta |-> delta, transcript |-> transcript,
     id |-> id, function |-> fn]

\* The arguments string of a function call: not JSON, the text null, or
\* the text of an object with a location.
ArgTexts == {NotJSON, JSONText(NULL),
             JSONText([t |-> "obj", location |-> "Tokyo"])}

DeltaValues == {Str(<<>>), Str(<<"a">>), Str(<<"b">>), Num}
TranscriptValues == {Str(<<>>), Str(<<"h">>), Num}

DeltaFrames ==
    { JSONText(Event("response.text.delta", d, UNDEF, UNDEF, UNDEF)) :
          d \in DeltaValues }
TranscriptFrames ==
    { JSONText(Event("response.audio_transcript.done", UNDEF, x, UNDEF,
                     UNDEF)) : x \in TranscriptValues }
\* Function-call frames: every name and every arguments text under the id
\* a1, a second id a2, and a frame without its function field.
FunctionCalls ==
    { [t |-> "obj", name |-> n, arguments |-> a] :
          n \in Names, a \in ArgTexts }
FunctionFrames ==
    { JSONText(Event("response.function.call", UNDEF, UNDEF, "a1", f)) :
          f \in FunctionCalls \cup {UNDEF} }
    \cup { JSONText(Event("response.function.call", UNDEF, UNDEF, "a2",
                          [t |-> "obj", name |-> "get_weather",
                           arguments |->
                               JSONText([t |-> "obj",
                                         location |-> "Tokyo"])])) }
OtherFrames ==
    { NotJSON, JSONText(NULL),
      JSONText(Event("session.created", UNDEF, UNDEF, UNDEF, UNDEF)) }
Frames == DeltaFrames \cup TranscriptFrames \cup FunctionFrames
              \cup OtherFrames

\* ------------------------------------------------------------- page: pure parts
\* A plausible slip: the new text is put in front of the old.
TextDelta_Prepend(prev, delta) ==
    IF prev # <<>> /\ Last(prev).role = "assistant"
    THEN Append(Front(prev),
                [role |-> "assistant",
                content |-> delta \o Last(prev).content])
    ELSE Append(prev, [role |-> "assistant", content |-> delta])

\* A plausible slip: every delta starts a message of its own.
TextDelta_AlwaysNew(prev, delta) ==
    Append(prev, [role |-> "assistant", content |-> delta])

\* The setMessages updater of the response.text.delta branch.
TextDelta(prev, delta) ==
    IF prev # <<>> /\ Last(prev).role = "assistant"
    THEN Append(Front(prev),
                [role |-> "assistant",
                content |-> Last(prev).content \o delta])
    ELSE Append(prev, [role |-> "assistant", content |-> delta])

\* A plausible slip: the new entry is put in front.
addTranscript_Prepend(prev, text) == <<text>> \o prev

\* addTranscript's updater
addTranscript(prev, text) == Append(prev, text)

\* A plausible slip: the unknown-name branch forgets the error field.
executeFunction_NoError(call) ==
    IF call.name = "get_weather"
    THEN IF call.arguments.t \in {"null", "undef"}
         THEN [rejected |-> TRUE, result |-> UNDEF]
         ELSE [rejected |-> FALSE,
               result |-> [id |-> call.id, name |-> call.name,
                           result |-> [t |-> "obj", kind |-> "weather"],
                           error |-> UNDEF]]
    ELSE [rejected |-> FALSE,
          result |-> [id |-> call.id, name |-> call.name, result |-> NULL,
                      error |-> UNDEF]]

\* executeFunction after its 1000 ms delay: the promise's outcome.
\* get_weather destructures the arguments, which throws a TypeError when
\* they are null; no try/catch surrounds it, so the promise rejects.  The
\* random weather fields are abstracted to one value.  The error text
\* stands for the source's "unimplemented function: <name>" string.
executeFunction(call) ==
    IF call.name = "get_weather"
    THEN IF call.arguments.t \in {"null", "undef"}
         THEN [rejected |-> TRUE, result |-> UNDEF]
         ELSE [rejected |-> FALSE,
               result |-> [id |-> call.id, name |-> call.name,
                           result |-> [t |-> "obj", kind |-> "weather"],
                           error |-> UNDEF]]
    ELSE [rejected |-> FALSE,
          result |-> [id |-> call.id, name |-> call.name, result |-> NULL,
                      error |-> Str("unimplemented function: " \o call.name)]]

\* The response.function.response frame built from a result.
functionResponseEvent(result) ==
    [type |-> "response.function.response",
     name |-> result.name,
     response |-> IF Truthy(result.error)
                  THEN [t |-> "obj", error |-> result.error]
                  ELSE result.result,
     id |-> result.id]

\* Map.set and Map.delete on the active map (a function on a set of ids).
MapSet(m, k, v) == [x \in DOMAIN m \cup {k} |-> IF x = k THEN v ELSE m[x]]
MapDelete(m, k) == [x \in DOMAIN m \ {k} |-> m[x]]
EmptyMap == [x \in {} |-> UNDEF]

\* ------------------------------------------------------------- function registry
\* A definition is its name and the rest of it (description and
\* parameters, as one value); a handler is a function value.
weatherFunctionDefinition == [name |-> "get_weather", rest |-> "weather"]
Definitions ==
    { [name |-> n, rest |-> d] :
          n \in {"get_weather", "get_time"}, d \in {"weather", "other"} }
Handlers == {"weatherFunctionHandler", "otherHandler"}

\* Map.set: the value of an existing key is replaced in place, a new key
\* goes to the end.
MapSetOrdered(entries, key, value) ==
    IF \E k \in 1..Len(entries) : entries[k].key = key
    THEN [k \in 1..Len(entries) |->
              IF entries[k].key = key THEN [key |-> key, value |-> value]
              ELSE entries[k]]
    ELSE Append(entries, [key |-> key, value |-> value])

\* FunctionRegistry.getAllDefinitions
getAllDefinitions ==
    [k \in 1..Len(functions) |-> functions[k].value.definition]

\* The registry after the module is loaded: the weather function is
\* registered.
RegistryLoaded ==
    /\ functions =
           MapSetOrdered(<<>>, weatherFunctionDefinition.name,
                         [definition |-> weatherFunctionDefinition,
                          handler |-> "weatherFunctionHandler"])
    /\ registerCalls = <<weatherFunctionDefinition>>

\* ------------------------------------------------------------- Init
\* The state after the first render and the mount effect: the worker is
\* created and INIT_CONNECTION is posted to it.
Init ==
    /\ status = "Initializing..."
    /\ error = NULL
    /\ isDataChannelReady = FALSE
    /\ messages = <<>>
    /\ inputMessage = <<>>
    /\ transcripts = <<>>
    /\ activeFunctions = EmptyMap
    /\ completedFunctions = <<>>
    /\ pc = "none" /\ dc = "none" /\ mic = "none"
    /\ workerAlive = TRUE /\ closeEvent = FALSE
    /\ initPc = "idle"
    /\ m2w = <<WMsg("INIT_CONNECTION", NULL, "")>>
    /\ w2m = <<>>
    /\ running = EmptyBag /\ pendingResp = 0
    /\ sent = <<>>
    /\ nFrames = 0 /\ nSubmits = 0 /\ lastEvent = "none"
    /\ sinceUser = <<>>
    /\ accepted = <<>>
    /\ executed = [i \in Ids |-> 0]
    /\ thrown = {}
    /\ failedSends = {}
    /\ sigRejected = FALSE
    /\ tokenMissing = FALSE
    /\ workerPosted = {}
    /\ unmounted = FALSE
    /\ logged = <<>>
    /\ arrived = <<>>
    /\ handshake = [offers |-> 0, requests |-> 0, answers |-> 0,
                    applies |-> 0]
    /\ token = NULL
    /\ bearer = <<>>
    /\ leaked = {}
    /\ isConnected = FALSE /\ isConnecting = FALSE
    /\ effectIsConnected = FALSE
    /\ orphanPc = 0 /\ orphanDc = 0 /\ nConnects = 0
    /\ RegistryLoaded
    /\ upstreamCalls = <<>> /\ served = <<>>

\* ------------------------------------------------------------- initializeWebRTC
\* A plausible slip: the catch sets the status and forgets the error
\* string.
initCatch_StatusOnly(message) ==
    /\ status' = "Error"
    /\ initPc' = "done"
    /\ UNCHANGED <<error, token, variant, registry, route, inputMessage>>

\* The catch of initializeWebRTC.
initCatch(message) ==
    /\ error' = Str(message)
    /\ status' = "Error"
    /\ initPc' = "done"
    /\ UNCHANGED <<token, variant, registry, route, inputMessage>>

\* The data of GET_REMOTE_DESCRIPTION: the offer SDP and the token.
OfferData(tok) == [t |-> "obj", content |-> Str("v=0 offer"), token |-> tok]

\* A plausible slip: the signaling request is posted as soon as the token
\* is there, before the microphone and the offer.
onTokenReceived_RequestsEarly ==
    /\ w2m # <<>> /\ Head(w2m).type = "TOKEN_RECEIVED"
    /\ w2m' = Tail(w2m)
    /\ IF Truthy(Head(w2m).data)
       THEN /\ pc' = "new" /\ initPc' = "awaitMic"
            /\ token' = Head(w2m).data
            /\ UNCHANGED <<variant, registry, route, inputMessage>>
            /\ m2w' = Append(m2w, WMsg("GET_REMOTE_DESCRIPTION",
                                       OfferData(Head(w2m).data), ""))
       ELSE UNCHANGED <<pc, initPc, token, variant, registry, route,
       inputMessage,
       m2w>>
    /\ UNCHANGED <<pageState, dc, mic, workerAlive, closeEvent, timers,
                   sent, history>>

\* workerRef.current.onmessage, TOKEN_RECEIVED: initializeWebRTC starts,
\* creates the peer connection and waits for the microphone.
onTokenReceived ==
    /\ w2m # <<>> /\ Head(w2m).type = "TOKEN_RECEIVED"
    /\ w2m' = Tail(w2m)
    /\ IF Truthy(Head(w2m).data)
       THEN /\ pc' = "new" /\ initPc' = "awaitMic"
            /\ token' = Head(w2m).data
            /\ UNCHANGED <<variant, registry, route, inputMessage>>
       ELSE UNCHANGED <<pc, initPc, token, variant, registry, route,
       inputMessage>>
    /\ UNCHANGED <<pageState, dc, mic, workerAlive, closeEvent, m2w, timers,
                   sent, history>>

\* getUserMedia resolves: the tracks are added (addTrack throws on a
\* closed connection) and the data channel is created.
micGranted ==
    /\ initPc = "awaitMic"
    /\ mic' = "live"
    /\ IF pc = "closed"
       THEN /\ initCatch("InvalidStateError")
            /\ UNCHANGED dc
       ELSE /\ dc' = "connecting"
            /\ initPc' = "awaitOffer"
            /\ UNCHANGED <<token, variant, registry, route, inputMessage>>
            /\ UNCHANGED <<error, status>>
    /\ UNCHANGED <<isDataChannelReady, messages, transcripts, activeFunctions,
                   completedFunctions, pc, workerAlive, closeEvent, queues,
                   timers, sent, history>>

\* getUserMedia rejects: no microphone permission.
micDenied ==
    /\ initPc = "awaitMic"
    /\ initCatch("Permission denied")
    /\ UNCHANGED <<isDataChannelReady, messages, transcripts, activeFunctions,
                   completedFunctions, platform, queues, timers, sent,
                   history>>

\* A plausible slip: the offer is posted to the worker twice, after
\* createOffer and again after setLocalDescription.
offerCreated_PostsTwice ==
    /\ initPc = "awaitOffer"
    /\ IF pc = "closed"
       THEN /\ initCatch("InvalidStateError")
            /\ UNCHANGED <<pc, m2w, handshake>>
       ELSE /\ pc' = "local"
            /\ initPc' = "done"
            /\ UNCHANGED <<token, variant, registry, route, inputMessage>>
            /\ handshake' = [handshake EXCEPT !.offers = @ + 1]
            /\ m2w' = IF workerAlive
                      THEN m2w \o <<WMsg("GET_REMOTE_DESCRIPTION",
                                         OfferData(token), ""),
                                    WMsg("GET_REMOTE_DESCRIPTION",
                                         OfferData(token), "")>>
                      ELSE m2w
            /\ UNCHANGED <<error, status>>
    /\ UNCHANGED <<isDataChannelReady, messages, transcripts, activeFunctions,
                   completedFunctions, dc, mic, workerAlive, closeEvent, w2m,
                   timers, sent, events>>

\* createOffer and setLocalDescription resolve (they reject on a closed
\* connection); the offer goes to the worker, which drops it when it has
\* been terminated.
offerCreated ==
    /\ initPc = "awaitOffer"
    /\ IF pc = "closed"
       THEN /\ initCatch("InvalidStateError")
            /\ UNCHANGED <<pc, m2w, handshake>>
       ELSE /\ pc' = "local"
            /\ initPc' = "done"
            /\ UNCHANGED <<token, variant, registry, route, inputMessage>>
            /\ handshake' = [handshake EXCEPT !.offers = @ + 1]
            /\ m2w' = IF workerAlive
                      THEN Append(m2w, WMsg("GET_REMOTE_DESCRIPTION",
                                            OfferData(token), ""))
                      ELSE m2w
            /\ UNCHANGED <<error, status>>
    /\ UNCHANGED <<isDataChannelReady, messages, transcripts, activeFunctions,
                   completedFunctions, dc, mic, workerAlive, closeEvent, w2m,
                   timers, sent, events>>

\* setRemoteDescription: rejects on a closed connection and on an answer
\* that is not a session description.
setRemoteDescription(pcState, sdp) ==
    IF pcState = "closed" THEN [ok |-> FALSE, message |-> "InvalidStateError"]
    ELSE IF sdp # "v=0 answer"
    THEN [ok |-> FALSE, message |-> "Failed to parse SessionDescription"]
    ELSE [ok |-> TRUE, message |-> ""]

\* workerRef.current.onmessage, REMOTE_DESCRIPTION_RECEIVED
onRemoteDescriptionReceived ==
    /\ w2m # <<>> /\ Head(w2m).type = "REMOTE_DESCRIPTION_RECEIVED"
    /\ w2m' = Tail(w2m)
    /\ IF Truthy(Head(w2m).data) /\ pc # "none"
       THEN LET r == setRemoteDescription(pc, Head(w2m).data.v) IN
            /\ handshake' = [handshake EXCEPT !.answers = @ + 1,
                                              !.applies = @ + 1]
            /\ IF r.ok
               THEN /\ pc' = "stable"
                    /\ status' = "Connecting..."
                    /\ UNCHANGED error
               ELSE /\ error' = Str(r.message)
                    /\ UNCHANGED <<pc, status>>
       ELSE /\ handshake' = [handshake EXCEPT !.answers = @ + 1]
            /\ UNCHANGED <<pc, status, error>>
    /\ UNCHANGED <<isDataChannelReady, messages, transcripts, activeFunctions,
                   completedFunctions, dc, mic, workerAlive, closeEvent,
                   initPc, token, variant, registry, route, inputMessage, m2w,
                   timers, sent,
                   events>>

\* A plausible slip: the ERROR case starts the connection over by posting
\* INIT_CONNECTION again.
onWorkerError_Retries ==
    /\ w2m # <<>> /\ Head(w2m).type = "ERROR"
    /\ w2m' = Tail(w2m)
    /\ error' = Str(IF Head(w2m).error # "" THEN Head(w2m).error
                    ELSE "Unknown error occurred")
    /\ status' = "Error"
    /\ m2w' = IF workerAlive
              THEN Append(m2w, WMsg("INIT_CONNECTION", NULL, ""))
              ELSE m2w
    /\ UNCHANGED <<isDataChannelReady, messages, transcripts, activeFunctions,
                   completedFunctions, platform, initPc, token, variant,
                   registry, route, inputMessage,
                   timers, sent,
                   history>>

\* workerRef.current.onmessage, ERROR
onWorkerError ==
    /\ w2m # <<>> /\ Head(w2m).type = "ERROR"
    /\ w2m' = Tail(w2m)
    /\ error' = Str(IF Head(w2m).error # "" THEN Head(w2m).error
                    ELSE "Unknown error occurred")
    /\ status' = "Error"
    /\ UNCHANGED <<isDataChannelReady, messages, transcripts, activeFunctions,
                   completedFunctions, platform, initPc, token, variant,
                   registry, route, inputMessage, m2w,
                   timers,
                   sent,
                   history>>

\* ------------------------------------------------------------- data channel
\* A frame of the session.update event sent on open.
sessionUpdateEvent == [type |-> "session.update", tools |-> {"get_weather"}]

\* A plausible slip: the channel is marked ready and nothing is sent.
dcOnOpen_NoUpdate ==
    /\ dc = "connecting" /\ pc = "stable"
    /\ dc' = "open"
    /\ isDataChannelReady' = TRUE
    /\ status' = "Ready"
    /\ UNCHANGED <<error, messages, transcripts, activeFunctions,
                   completedFunctions, pc, mic, workerAlive, closeEvent,
                   initPc, token, variant, registry, route, inputMessage,
                   queues,
                   timers, sent,
                   history>>

\* dc.onopen: the channel opens once the remote description is applied.
dcOnOpen ==
    /\ dc = "connecting" /\ pc = "stable"
    /\ dc' = "open"
    /\ isDataChannelReady' = TRUE
    /\ status' = "Ready"
    /\ sent' = Append(sent, sessionUpdateEvent)
    /\ UNCHANGED <<error, messages, transcripts, activeFunctions,
                   completedFunctions, pc, mic, workerAlive, closeEvent,
                   initPc, token, variant, registry, route, inputMessage,
                   queues,
                   timers, history>>

\* The transport closes the channel: readyState becomes closed and
\* dc.onclose runs.
dcOnClose ==
    /\ dc \in {"connecting", "open"}
    /\ dc' = "closed"
    /\ isDataChannelReady' = FALSE
    /\ UNCHANGED <<status, error, messages, transcripts, activeFunctions,
                   completedFunctions, pc, mic, workerAlive, closeEvent,
                   initPc, token, variant, registry, route, inputMessage,
                   queues,
                   timers, sent,
                   history>>

\* dc.onclose after the cleanup closed the channel (the close event of a
\* channel closed by the page itself).
dcOnCloseAfterCleanup ==
    /\ closeEvent
    /\ closeEvent' = FALSE
    /\ isDataChannelReady' = FALSE
    /\ UNCHANGED <<status, error, messages, transcripts, activeFunctions,
                   completedFunctions, pc, dc, mic, workerAlive, initPc,
                   token, variant, registry, route, inputMessage,
                   queues, timers, sent, history>>

\* A plausible slip: the error handler of the channel also sets the status.
dcOnError_SetsStatus ==
    /\ dc \in {"connecting", "open"}
    /\ error' = Str("Data channel error: [object Event]")
    /\ status' = "Error"
    /\ UNCHANGED <<isDataChannelReady, messages, transcripts,
                   activeFunctions, completedFunctions, platform, initPc,
                   token, variant, registry, route, inputMessage,
                   queues, timers, sent, history>>

\* dc.onerror
dcOnError ==
    /\ dc \in {"connecting", "open"}
    /\ error' = Str("Data channel error: [object Event]")
    /\ UNCHANGED <<status, isDataChannelReady, messages, transcripts,
                   activeFunctions, completedFunctions, platform, initPc,
                   token, variant, registry, route, inputMessage,
                   queues, timers, sent, history>>

\* ------------------------------------------------------------- dc.onmessage
\* One recorded input: its kind and its text or its call.
Input(kind, text, call) == [kind |-> kind, text |-> text, call |-> call]
Arrive(in) == arrived' = Append(arrived, in)

\* What the properties call the step: the kind of the event handled last.
Note(kind) ==
    /\ nFrames' = nFrames + 1
    /\ lastEvent' = kind
    /\ UNCHANGED nSubmits

\* A plausible slip: a frame that does not parse closes the channel.
dcOnMessageCatch_Closes ==
    /\ Note("malformed")
    /\ dc' = "closed"
    /\ UNCHANGED <<pageState, pc, mic, workerAlive, closeEvent, initPc,
                   token, variant, registry, route, inputMessage, queues,
                   timers,
                   sent, sinceUser,
                   accepted, executed, thrown, failedSends, sigRejected,
                   tokenMissing, bearer, leaked, handshake, workerPosted,
                   unmounted, arrived>>

\* The outer catch of dc.onmessage: JSON.parse threw, or the parsed value
\* is null and reading its type threw.  The exception is logged.
dcOnMessageCatch ==
    /\ Note("malformed")
    /\ UNCHANGED <<pageState, platform, initPc, token, variant, registry,
                   route,
                   inputMessage,
                   queues, timers, sent, sinceUser, accepted, executed,
                   thrown, failedSends, sigRejected, tokenMissing, bearer,
                   leaked, handshake, workerPosted, unmounted, arrived>>

\* A plausible slip: the call enters the active map before its arguments
\* are parsed, so a frame that is dropped leaves an entry behind.
dcFunctionCall_ActiveBeforeParse(ev) ==
    LET args == IF ev.function.t = "obj"
                THEN JSONParse(ev.function.arguments)
                ELSE [threw |-> TRUE, value |-> UNDEF]
        functionCall == [id |-> ev.id,
                         name |-> IF ev.function.t = "obj"
                                  THEN ev.function.name ELSE "",
                         arguments |-> args.value]
    IN
    /\ activeFunctions' = MapSet(activeFunctions, functionCall.id,
                                 functionCall)
    /\ IF args.threw
       THEN /\ Note("dropped")
            /\ UNCHANGED <<running, accepted, executed, arrived>>
       ELSE /\ Note("function")
            /\ Arrive(Input("function", <<>>, functionCall))
            /\ running' = running (+) SetToBag({functionCall})
            /\ accepted' = Append(accepted, [id |-> functionCall.id,
                                             name |-> functionCall.name])
            /\ executed' = [executed EXCEPT ![ev.id] = @ + 1]
    /\ UNCHANGED <<status, error, isDataChannelReady, messages, transcripts,
                   completedFunctions, platform, initPc, token, variant,
                   registry, route, inputMessage,
                   queues,
                   pendingResp,
                   sent, sinceUser, thrown, failedSends, sigRejected,
                   tokenMissing, bearer, leaked, handshake,
                   workerPosted, unmounted>>

\* The response.function.call branch.  Reading function.name of a frame
\* without function, or parsing arguments that are not JSON, throws into
\* the inner catch and the frame is dropped.  Otherwise the call is put in
\* the active map and executeFunction starts its delay.
dcFunctionCall(ev) ==
    LET args == IF ev.function.t = "obj"
                THEN JSONParse(ev.function.arguments)
                ELSE [threw |-> TRUE, value |-> UNDEF]
    IN
    IF args.threw
    THEN /\ Note("dropped")
         /\ UNCHANGED <<pageState, platform, initPc, token, variant,
                        registry, route, inputMessage, queues, timers, sent,
                        sinceUser, accepted,
                        executed, thrown, failedSends, sigRejected,
                        tokenMissing, bearer, leaked, handshake,
                        workerPosted, unmounted, arrived>>
    ELSE LET functionCall == [id |-> ev.id, name |-> ev.function.name,
                              arguments |-> args.value]
         IN
         /\ Note("function")
         /\ Arrive(Input("function", <<>>, functionCall))
         /\ activeFunctions' = MapSet(activeFunctions, functionCall.id,
                                      functionCall)
         /\ running' = running (+) SetToBag({functionCall})
         /\ accepted' = Append(accepted, [id |-> functionCall.id,
                                          name |-> functionCall.name])
         /\ executed' = [executed EXCEPT ![ev.id] = @ + 1]
         /\ UNCHANGED <<status, error, isDataChannelReady, messages,
                        transcripts, completedFunctions, platform, initPc,
                        token, variant, registry, route, inputMessage,
                        queues, pendingResp, sent, sinceUser, thrown,
                        failedSends, sigRejected, tokenMissing, bearer,
                        leaked, handshake,
                        workerPosted, unmounted>>

\* A plausible slip: the updater is not functional; it reads the messages
\* captured when the handler was created (none).
dcTextDelta_StaleMessages(ev) ==
    /\ Note("delta")
    /\ Arrive(Input("delta", ev.delta.v, UNDEF))
    /\ messages' = TextDelta(<<>>, ev.delta.v)
    /\ sinceUser' = Append(sinceUser, ev.delta.v)
    /\ UNCHANGED <<status, error, isDataChannelReady, transcripts,
                   activeFunctions, completedFunctions, platform, initPc,
                   token, variant, registry, route, inputMessage,
                   queues, timers, sent, accepted, executed, thrown,
                   failedSends, sigRejected, tokenMissing, bearer, leaked,
                   handshake,
                   workerPosted, unmounted>>

\* The response.text.delta branch (delta is a string).
dcTextDelta(ev) ==
    /\ Note("delta")
    /\ Arrive(Input("delta", ev.delta.v, UNDEF))
    /\ messages' = TextDelta(messages, ev.delta.v)
    /\ sinceUser' = Append(sinceUser, ev.delta.v)
    /\ UNCHANGED <<status, error, isDataChannelReady, transcripts,
                   activeFunctions, completedFunctions, platform, initPc,
                   token, variant, registry, route, inputMessage,
                   queues, timers, sent, accepted, executed, thrown,
                   failedSends, sigRejected, tokenMissing, bearer, leaked,
                   handshake,
                   workerPosted, unmounted>>

\* The response.audio_transcript.done branch (transcript is a string).
dcTranscript(ev) ==
    /\ Note("transcript")
    /\ Arrive(Input("transcript", ev.transcript.v, UNDEF))
    /\ transcripts' = addTranscript(transcripts, ev.transcript.v)
    /\ UNCHANGED <<status, error, isDataChannelReady, messages,
                   activeFunctions, completedFunctions, platform, initPc,
                   token, variant, registry, route, inputMessage,
                   queues, timers, sent, sinceUser, accepted, executed,
                   thrown,
                   failedSends, sigRejected, tokenMissing, bearer, leaked,
                   handshake,
                   workerPosted, unmounted>>

\* The event types dc.onmessage has a branch for.
HandledTypes == {"response.function.call", "response.text.delta",
                 "response.audio_transcript.done"}

\* What the properties call a frame no branch takes: its type is not
\* handled, or the field of a handled type is not a string.
IgnoredKind(ev) ==
    IF ev.type = "response.text.delta" THEN "ignoredDelta"
    ELSE IF ev.type \in HandledTypes THEN "ignored" ELSE "unknown"

\* A plausible slip (the first version of the handler): the delta branch
\* does not look at the type of the delta field, which is then
\* concatenated as whatever text it converts to.
dcIgnored_NoTypeCheck(ev) ==
    /\ Note(IgnoredKind(ev))
    /\ messages' = IF ev.type = "response.text.delta"
                   THEN TextDelta(messages, <<"?">>)
                   ELSE messages
    /\ UNCHANGED <<status, error, isDataChannelReady, transcripts,
                   activeFunctions, completedFunctions, platform, initPc,
                   token, variant, registry, route, inputMessage,
                   queues, timers, sent, sinceUser, accepted, executed,
                   thrown, failedSends, sigRejected, tokenMissing, bearer,
                   leaked, handshake,
                   workerPosted, unmounted,
                   arrived>>

\* A plausible slip: an event no branch takes is reported as an error.
dcIgnored_SetsError(ev) ==
    /\ Note(IgnoredKind(ev))
    /\ error' = Str("Unknown event")
    /\ UNCHANGED <<status, isDataChannelReady, messages, transcripts,
                   activeFunctions, completedFunctions, platform, initPc,
                   token, variant, registry, route, inputMessage,
                   queues, timers, sent, sinceUser, accepted, executed,
                   thrown, failedSends, sigRejected, tokenMissing, bearer,
                   leaked, handshake,
                   workerPosted, unmounted,
                   arrived>>

\* Any other frame: nothing but the log entry.
dcIgnored(ev) ==
    /\ Note(IgnoredKind(ev))
    /\ UNCHANGED <<pageState, platform, initPc, token, variant, registry,
                   route,
                   inputMessage,
                   queues, timers, sent, sinceUser, accepted, executed,
                   thrown, failedSends, sigRejected, tokenMissing, bearer,
                   leaked, handshake, workerPosted, unmounted, arrived>>

\* The debug-log entries of one run of dc.onmessage, by kind: the event
\* is logged once it parsed; the function-call branch logs the call and
\* then either the start of executeFunction or the exception of its inner
\* catch; the outer catch logs its exception.
dcOnMessageLog(text) ==
    LET p == JSONParse(text) IN
    IF p.threw THEN <<"Error parsing event">>
    ELSE IF p.value.t # "obj"
    THEN <<"Received event", "Error parsing event">>
    ELSE IF p.value.type = "response.function.call"
    THEN <<"Received event", "Function call received">>
             \o (IF p.value.function.t = "obj"
                        /\ ~JSONParse(p.value.function.arguments).threw
                 THEN <<"Executing function">>
                 ELSE <<"Error processing function call">>)
    ELSE <<"Received event">>

\* dc.onmessage: one inbound frame, delivered while the channel is open.
dcOnMessage ==
    /\ dc = "open"
    /\ nFrames + nSubmits < MaxInputs
    /\ \E text \in Frames :
          LET p == JSONParse(text) IN
          /\ logged' = dcOnMessageLog(text)
          /\ IF p.threw \/ p.value.t # "obj" THEN dcOnMessageCatch
             ELSE LET ev == p.value IN
                  IF ev.type = "response.function.call"
                  THEN dcFunctionCall(ev)
                  ELSE IF ev.type = "response.text.delta"
                          /\ IsString(ev.delta)
                  THEN dcTextDelta(ev)
                  ELSE IF ev.type = "response.audio_transcript.done"
                          /\ IsString(ev.transcript)
                  THEN dcTranscript(ev)
                  ELSE dcIgnored(ev)

\* The 1000 ms delay of one invocation ends and executeFunction settles:
\* the then-callback appends the result, removes the id from the active
\* map and, if the channel is open, logs and sends the response (nothing
\* is logged or sent otherwise); the catch-callback only logs.
functionSettled ==
    \E call \in BagToSet(running) :
        LET r == executeFunction(call) IN
        /\ running' = running (-) SetToBag({call})
        /\ IF r.rejected
           THEN /\ thrown' = thrown \cup {[id |-> call.id,
                                           name |-> call.name]}
                /\ logged' = <<"Error executing function">>
                /\ UNCHANGED <<completedFunctions, activeFunctions, sent>>
           ELSE /\ completedFunctions' = Append(completedFunctions, r.result)
                /\ activeFunctions' = MapDelete(activeFunctions, call.id)
                /\ sent' = IF dc = "open"
                           THEN Append(sent, functionResponseEvent(r.result))
                           ELSE sent
                /\ logged' = IF dc = "open"
                             THEN <<"Sending function response">>
                             ELSE <<>>
                /\ UNCHANGED thrown
        /\ UNCHANGED <<status, error, isDataChannelReady, messages,
                       transcripts, platform, initPc, token, variant,
                       registry, route, inputMessage, queues,
                       pendingResp,
                       nFrames, nSubmits, lastEvent, sinceUser, accepted,
                       executed, failedSends, sigRejected, tokenMissing,
                       bearer, leaked,
                       handshake, workerPosted,
                       unmounted,
                   arrived>>

\* ------------------------------------------------------------- sendMessage
\* String.prototype.trim on a sequence of characters.
RECURSIVE TrimStart(_)
TrimStart(s) == IF s # <<>> /\ Head(s) = " " THEN TrimStart(Tail(s)) ELSE s
RECURSIVE TrimEnd(_)
TrimEnd(s) == IF s # <<>> /\ Last(s) = " " THEN TrimEnd(Front(s)) ELSE s
Trim(s) == TrimEnd(TrimStart(s))

\* What the user can type into the text field.
Inputs == {<<>>, <<" ">>, <<"u">>}

\* A plausible slip: the field is cleared before the two checks.
sendMessage_ClearsFirst(typed) ==
    /\ inputMessage' = <<>>
    /\ IF Trim(typed) = <<>> \/ ~isDataChannelReady
       THEN UNCHANGED <<messages, m2w, lastEvent, sinceUser, arrived>>
       ELSE /\ Arrive(Input("user", typed, UNDEF))
            /\ messages' = Append(messages, [role |-> "user",
                                             content |-> typed])
            /\ m2w' = IF workerAlive
                      THEN Append(m2w, WMsg("FORMAT_MESSAGE", typed, ""))
                      ELSE m2w
            /\ lastEvent' = "user"
            /\ sinceUser' = <<>>

\* The body of sendMessage with the text field holding typed: returns on
\* a blank input and on a channel that is not ready; otherwise the user
\* message is appended, FORMAT_MESSAGE is posted (a terminated worker
\* drops it) and the field is cleared.
sendMessageBody(typed) ==
    IF Trim(typed) = <<>> \/ ~isDataChannelReady
    THEN /\ inputMessage' = typed
         /\ UNCHANGED <<messages, m2w, lastEvent, sinceUser, arrived>>
    ELSE /\ Arrive(Input("user", typed, UNDEF))
         /\ messages' = Append(messages, [role |-> "user",
                                          content |-> typed])
         /\ m2w' = IF workerAlive
                   THEN Append(m2w, WMsg("FORMAT_MESSAGE", typed, ""))
                   ELSE m2w
         /\ inputMessage' = <<>>
         /\ lastEvent' = "user"
         /\ sinceUser' = <<>>

\* The user types a text (onChange sets inputMessage) and submits it with
\* Enter or the Send button.
sendMessage ==
    /\ ~unmounted
    /\ nFrames + nSubmits < MaxInputs
    /\ nSubmits' = nSubmits + 1
    /\ \E typed \in Inputs : sendMessageBody(typed)
    /\ UNCHANGED <<status, error, isDataChannelReady, transcripts,
                   activeFunctions, completedFunctions, platform, initPc,
                   token, variant, registry, route,
                   w2m, timers, sent, nFrames, accepted, executed, thrown,
                   failedSends, sigRejected, tokenMissing, bearer, leaked,
                   handshake,
                   workerPosted, unmounted, logged>>

\* workerRef.current.onmessage, MESSAGE_FORMATTED: on an open channel the
\* user message is sent and the handler waits 100 ms.
onMessageFormatted ==
    /\ w2m # <<>> /\ Head(w2m).type = "MESSAGE_FORMATTED"
    /\ w2m' = Tail(w2m)
    /\ IF dc = "open"
       THEN /\ sent' = Append(sent, Head(w2m).data.userMessage)
            /\ pendingResp' = pendingResp + 1
       ELSE UNCHANGED <<sent, pendingResp>>
    /\ UNCHANGED <<pageState, platform, initPc, token, variant, registry,
                   route,
                   inputMessage,
                   m2w, running, history>>

\* The 100 ms wait ends: send is called without looking at readyState
\* again; on a channel that is no longer open it throws, and the catch
\* sets the error string.
responseTimer ==
    /\ pendingResp > 0
    /\ pendingResp' = pendingResp - 1
    /\ IF dc = "open"
       THEN /\ sent' = Append(sent, formatResponseRequest)
            /\ UNCHANGED <<error, failedSends>>
       ELSE /\ error' = Str("InvalidStateError")
            /\ failedSends' = failedSends \cup {formatResponseRequest.type}
            /\ UNCHANGED sent
    /\ UNCHANGED <<status, isDataChannelReady, messages, transcripts,
                   activeFunctions, completedFunctions, platform, initPc,
                   token, variant, registry, route, inputMessage,
                   queues, running, nFrames, nSubmits, lastEvent, sinceUser,
                   accepted, executed, thrown, sigRejected, tokenMissing,
                   bearer, leaked,
                   handshake, workerPosted,
                   unmounted, logged,
                   arrived>>

\* ------------------------------------------------------------- cleanup
\* The cleanup of the mount effect (unmount): closes the data channel and
\* the peer connection when their refs are set and terminates the worker.
\* The microphone stream is a local of initializeWebRTC; nothing stops its
\* tracks.  Messages the worker posted before it was terminated may still
\* be delivered.
cleanup ==
    /\ ~unmounted
    /\ unmounted' = TRUE
    /\ dc' = IF dc \in {"connecting", "open"} THEN "closed" ELSE dc
    /\ closeEvent' = (dc \in {"connecting", "open"})
    /\ pc' = IF pc # "none" THEN "closed" ELSE pc
    /\ workerAlive' = FALSE
    /\ UNCHANGED <<pageState, mic, initPc, token, variant, registry, route,
                   inputMessage, queues,
                   timers, sent, nFrames, nSubmits, lastEvent, sinceUser,
                   accepted, executed, thrown, failedSends, sigRejected,
                   tokenMissing, bearer, leaked, handshake, workerPosted,
                   logged, arrived>>

\* ------------------------------------------------------------- specification
Next ==
    \/ workerInitConnection
    \/ workerGetRemoteDescription
    \/ workerFormatMessage
    \/ onTokenReceived
    \/ micGranted
    \/ micDenied
    \/ offerCreated
    \/ onRemoteDescriptionReceived
    \/ onWorkerError
    \/ onMessageFormatted
    \/ responseTimer
    \/ dcOnOpen
    \/ dcOnClose
    \/ dcOnCloseAfterCleanup
    \/ dcOnError
    \/ dcOnMessage
    \/ functionSettled
    \/ sendMessage
    \/ cleanup

Spec == Init /\ [][Next]_vars

\* ------------------------------------------------------------- many function calls
\* A session that connects and then receives function-call frames only,
\* more of them than Spec lets arrive.
MaxCalls == 4

\* The function-call frames that are accepted and whose handler resolves.
CallFrames ==
    { text \in FunctionFrames :
          LET ev == JSONParse(text).value IN
          /\ ev.function.t = "obj"
          /\ ~JSONParse(ev.function.arguments).threw
          /\ JSONParse(ev.function.arguments).value.t = "obj" }

\* dc.onmessage for one of these frames.
dcOnMessageCall ==
    /\ dc = "open"
    /\ nFrames < MaxCalls
    /\ \E text \in CallFrames :
          /\ logged' = dcOnMessageLog(text)
          /\ dcFunctionCall(JSONParse(text).value)

NextCalls ==
    \/ workerInitConnection
    \/ workerGetRemoteDescription
    \/ onTokenReceived
    \/ micGranted
    \/ offerCreated
    \/ onRemoteDescriptionReceived
    \/ dcOnOpen
    \/ dcOnMessageCall
    \/ functionSettled

SpecCalls == Init /\ [][NextCalls]_vars

\* ------------------------------------------------------------- the text field
\* A session in which the user types into the text field and submits with
\* Enter as separate steps, while the channel opens and may close.
MaxSubmits == 3

\* onChange of the text field; the field is disabled while the channel is
\* not ready.
onChange ==
    /\ ~unmounted
    /\ isDataChannelReady
    /\ \E value \in Inputs :
          /\ value # inputMessage
          /\ inputMessage' = value
    /\ UNCHANGED <<pageState, platform, initPc, token, variant, registry,
                   route,
                   queues, timers, sent, history>>

\* onKeyPress with Enter: sendMessage runs on what the field holds.
onKeyPress ==
    /\ ~unmounted
    /\ nSubmits < MaxSubmits
    /\ nSubmits' = nSubmits + 1
    /\ sendMessageBody(inputMessage)
    /\ UNCHANGED <<status, error, isDataChannelReady, transcripts,
                   activeFunctions, completedFunctions, platform, initPc,
                   token, variant, registry, route, w2m, timers, sent, nFrames,
                   accepted, executed, thrown, failedSends, sigRejected,
                   tokenMissing, bearer, leaked, handshake, workerPosted,
                   unmounted, logged>>

NextSend ==
    \/ workerInitConnection
    \/ workerGetRemoteDescription
    \/ workerFormatMessage
    \/ onTokenReceived
    \/ micGranted
    \/ offerCreated
    \/ onRemoteDescriptionReceived
    \/ dcOnOpen
    \/ dcOnClose
    \/ onChange
    \/ onKeyPress
    \/ onMessageFormatted
    \/ responseTimer

SpecSend == Init /\ [][NextSend]_vars

\* ------------------------------------------------------------- session route
\* GET of /api/session, which runs on the server: it reads the API key
\* from the environment and asks the upstream API for a session.
MaxRequests == 3

\* process.env.OPENAI_API_KEY: absent, empty or set.
ApiKeys == {UNDEF, Str(""), Str("sk-key")}

\* What the upstream exchange can do: fetch throws, or it answers with a
\* status (ok for 2xx) and a body that is JSON text or not.
sessionJSON == [t |-> "obj", client_secret |-> Str("ek_token")]
upstreamErrorJSON == [t |-> "obj", error |-> Str("Incorrect API key sk-key")]
UpstreamOutcomes ==
    { [threw |-> TRUE, ok |-> FALSE, code |-> "", text |-> NotJSON] }
    \cup { [threw |-> FALSE, ok |-> TRUE, code |-> "200", text |-> b] :
              b \in {JSONText(sessionJSON), NotJSON} }
    \cup { [threw |-> FALSE, ok |-> FALSE, code |-> c, text |-> b] :
              c \in {"401", "500"},
              b \in {JSONText(upstreamErrorJSON), NotJSON} }

\* The three bodies the route builds itself, and NextResponse.json.
InternalServerError == [t |-> "obj", error |-> Str("Internal server error")]
FailedToCreateSession ==
    [t |-> "obj", error |-> Str("Failed to create session")]
NextResponse(body, code) == [status |-> code, body |-> body]

\* The request sent upstream with the key.
sessionRequest(key) ==
    [url |-> "https://api.openai.com/v1/realtime/sessions",
     method |-> "POST", authorization |-> "Bearer " \o key.v]

\* A plausible slip: the upstream error body is handed to the client.
GET_ForwardsError(key, outcome) ==
    IF ~Truthy(key)
    THEN [fetched |-> FALSE, reply |-> NextResponse(InternalServerError, 500)]
    ELSE [fetched |-> TRUE,
          reply |->
              IF outcome.threw
              THEN NextResponse(FailedToCreateSession, 500)
              ELSE IF JSONParse(outcome.text).threw
              THEN NextResponse(FailedToCreateSession, 500)
              ELSE NextResponse(JSONParse(outcome.text).value,
                                IF outcome.ok THEN 200 ELSE 500)]

\* GET: whether the upstream request is made, and the reply.  Without a
\* key nothing is fetched.  A fetch that throws, a status that is not ok,
\* and a body of an ok response that is not JSON (response.json() throws
\* into the catch) all give the same generic reply; the upstream error
\* body is only written to the server's console.
GET(key, outcome) ==
    IF ~Truthy(key)
    THEN [fetched |-> FALSE, reply |-> NextResponse(InternalServerError, 500)]
    ELSE [fetched |-> TRUE,
          reply |->
              IF outcome.threw
              THEN NextResponse(FailedToCreateSession, 500)
              ELSE IF ~outcome.ok
              THEN NextResponse(FailedToCreateSession, 500)
              ELSE IF JSONParse(outcome.text).threw
              THEN NextResponse(FailedToCreateSession, 500)
              ELSE NextResponse(JSONParse(outcome.text).value, 200)]

\* The state the route does not touch.
idleInRoute == <<pageState, platform, initPc, token, variant, registry,
                 inputMessage, queues, timers, sent, history>>

\* One request to the route.
serveSession ==
    /\ Len(served) < MaxRequests
    /\ \E key \in ApiKeys, outcome \in UpstreamOutcomes :
          LET r == GET(key, outcome) IN
          /\ upstreamCalls' = IF r.fetched
                              THEN Append(upstreamCalls, sessionRequest(key))
                              ELSE upstreamCalls
          /\ served' = Append(served, [key |-> key, outcome |-> outcome,
                                       fetched |-> r.fetched,
                                       reply |-> r.reply])
    /\ UNCHANGED idleInRoute

NextRoute == serveSession

SpecRoute == Init /\ [][NextRoute]_vars

\* ------------------------------------------------------------- registry calls
\* The exported functionRegistry on its own: any caller registers any
\* definition.
MaxRegisters == 3

\* The state the registry does not touch.
idleInRegistry == <<pageState, platform, initPc, token, variant, route,
                    inputMessage, queues, timers, sent, history>>

\* FunctionRegistry.register
register ==
    /\ Len(registerCalls) <= MaxRegisters
    /\ \E definition \in Definitions, handler \in Handlers :
          /\ functions' = MapSetOrdered(functions, definition.name,
                                        [definition |-> definition,
                                         handler |-> handler])
          /\ registerCalls' = Append(registerCalls, definition)
    /\ UNCHANGED idleInRegistry

NextRegistry == register

SpecRegistry == Init /\ [][NextRegistry]_vars

\* ------------------------------------------------------------- Connect / Disconnect
\* The page with Connect and Disconnect buttons (initializeConnection and
\* disconnectConnection): nothing starts on mount, the worker is created
\* by the first Connect, and an effect whose dependency is isConnected
\* returns a cleanup that calls disconnectConnection when the isConnected
\* it captured is true.  React runs that cleanup when isConnected changes
\* and on unmount.  The handlers of frames and of user text are those of
\* Spec and are left out here.  A terminated worker delivers nothing:
\* terminate empties the message queues of both directions.

\* how many times Connect is clicked
MaxConnects == 3

\* The state this page does not touch.
idleInConnect == <<messages, transcripts, activeFunctions,
                   completedFunctions, closeEvent, timers, sent, registry,
                   route,
                   inputMessage>>

\* A peer connection or data channel that exists and is not closed.
Unclosed(x) == x \notin {"none", "closed"}

InitConnect ==
    /\ status = "Disconnected"
    /\ error = NULL
    /\ isDataChannelReady = FALSE
    /\ messages = <<>>
    /\ inputMessage = <<>>
    /\ transcripts = <<>>
    /\ activeFunctions = EmptyMap
    /\ completedFunctions = <<>>
    /\ pc = "none" /\ dc = "none" /\ mic = "none"
    /\ workerAlive = FALSE /\ closeEvent = FALSE
    /\ initPc = "idle"
    /\ token = NULL
    /\ m2w = <<>> /\ w2m = <<>>
    /\ running = EmptyBag /\ pendingResp = 0
    /\ sent = <<>>
    /\ nFrames = 0 /\ nSubmits = 0 /\ lastEvent = "none"
    /\ sinceUser = <<>>
    /\ accepted = <<>>
    /\ executed = [i \in Ids |-> 0]
    /\ thrown = {}
    /\ failedSends = {}
    /\ sigRejected = FALSE
    /\ tokenMissing = FALSE
    /\ workerPosted = {}
    /\ unmounted = FALSE
    /\ logged = <<>>
    /\ arrived = <<>>
    /\ handshake = [offers |-> 0, requests |-> 0, answers |-> 0,
                    applies |-> 0]
    /\ bearer = <<>>
    /\ leaked = {}
    /\ isConnected = FALSE /\ isConnecting = FALSE
    /\ effectIsConnected = FALSE
    /\ orphanPc = 0 /\ orphanDc = 0 /\ nConnects = 0
    /\ RegistryLoaded
    /\ upstreamCalls = <<>> /\ served = <<>>

\* The buttons are handled after the effects of the last render ran.
EffectsFlushed == effectIsConnected = isConnected

\* initializeConnection (the Connect button, enabled when neither
\* connected nor connecting): a worker is created when there is none, and
\* INIT_CONNECTION is posted.
initializeConnection ==
    /\ ~unmounted /\ EffectsFlushed
    /\ ~isConnected /\ ~isConnecting
    /\ nConnects < MaxConnects
    /\ nConnects' = nConnects + 1
    /\ isConnecting' = TRUE
    /\ status' = "Initializing..."
    /\ error' = NULL
    /\ workerAlive' = TRUE
    /\ m2w' = Append(IF workerAlive THEN m2w ELSE <<>>,
                     WMsg("INIT_CONNECTION", NULL, ""))
    /\ w2m' = IF workerAlive THEN w2m ELSE <<>>
    /\ isConnected' = TRUE
    /\ UNCHANGED <<isDataChannelReady, pc, dc, mic, initPc, token,
                   effectIsConnected, orphanPc, orphanDc, idleInConnect,
                   history>>

\* A plausible slip: the worker is not terminated and its ref is kept.
disconnectConnection_KeepsWorker ==
    /\ dc' = "none"
    /\ pc' = "none"
    /\ UNCHANGED <<workerAlive, m2w, w2m>>
    /\ isDataChannelReady' = FALSE
    /\ status' = "Disconnected"
    /\ isConnected' = FALSE
    /\ isConnecting' = FALSE

\* disconnectConnection: closes the channel and the connection the refs
\* hold and terminates the worker, clears the three refs, and sets the
\* state.
disconnectConnection ==
    /\ dc' = "none"
    /\ pc' = "none"
    /\ workerAlive' = FALSE
    /\ m2w' = <<>> /\ w2m' = <<>>
    /\ isDataChannelReady' = FALSE
    /\ status' = "Disconnected"
    /\ isConnected' = FALSE
    /\ isConnecting' = FALSE

\* The Disconnect button, enabled when connected and not connecting.
clickDisconnect ==
    /\ ~unmounted /\ EffectsFlushed
    /\ isConnected /\ ~isConnecting
    /\ disconnectConnection
    /\ UNCHANGED <<error, mic, initPc, token, effectIsConnected, orphanPc,
                   orphanDc, nConnects, idleInConnect, history>>

\* A plausible slip: the effect has no dependency, so its cleanup runs on
\* unmount only and a change of isConnected tears nothing down.
effectCleanup_OnUnmountOnly ==
    /\ ~unmounted /\ ~EffectsFlushed
    /\ effectIsConnected' = isConnected
    /\ UNCHANGED <<pageState, platform, initPc, token, isConnected,
                   isConnecting, orphanPc, orphanDc, nConnects, queues,
                   timers, sent, history,
                   registry, route, inputMessage>>

\* isConnected changed: the cleanup of the effect of the previous render
\* runs with the isConnected of that render, then the effect is installed
\* again.
effectCleanup ==
    /\ ~unmounted /\ ~EffectsFlushed
    /\ effectIsConnected' = isConnected
    /\ IF effectIsConnected
       THEN disconnectConnection
       ELSE UNCHANGED <<dc, pc, workerAlive, m2w, w2m, isDataChannelReady,
                        status, isConnected, isConnecting>>
    /\ UNCHANGED <<error, mic, initPc, token, orphanPc, orphanDc, nConnects,
                   idleInConnect, history>>

\* The component unmounts: the cleanup runs a last time.
unmountConnect ==
    /\ ~unmounted /\ EffectsFlushed
    /\ unmounted' = TRUE
    /\ IF effectIsConnected
       THEN disconnectConnection
       ELSE UNCHANGED <<dc, pc, workerAlive, m2w, w2m, isDataChannelReady,
                        status, isConnected, isConnecting>>
    /\ UNCHANGED <<error, mic, initPc, token, effectIsConnected, orphanPc,
                   orphanDc, nConnects, idleInConnect, nFrames, nSubmits,
                   lastEvent, sinceUser, accepted, executed, thrown,
                   failedSends, sigRejected, tokenMissing, workerPosted,
                   logged, arrived, bearer, leaked, handshake>>

\* React runs the effects of a render before the next render: a handler
\* that sets isConnected to false finds the effect of the render before
\* it installed, with the isConnected of that render.
EffectOfLastRender == effectIsConnected' = (effectIsConnected \/ isConnected)

\* The catch of initializeWebRTC.  React discards the state updates of a
\* component that is unmounted: the four setters then change nothing.
connectCatch(message) ==
    /\ IF unmounted
       THEN UNCHANGED <<error, status, isConnecting, isConnected,
                        effectIsConnected>>
       ELSE /\ error' = Str(message)
            /\ status' = "Error"
            /\ isConnecting' = FALSE
            /\ isConnected' = FALSE
            /\ EffectOfLastRender
    /\ initPc' = "done"

\* TOKEN_RECEIVED: initializeWebRTC creates a peer connection and stores
\* it in the ref; a connection the ref held before stays as it was.
connectOnTokenReceived ==
    /\ workerAlive /\ w2m # <<>> /\ Head(w2m).type = "TOKEN_RECEIVED"
    /\ w2m' = Tail(w2m)
    /\ IF Truthy(Head(w2m).data)
       THEN /\ pc' = "new"
            /\ orphanPc' = orphanPc + (IF Unclosed(pc) THEN 1 ELSE 0)
            /\ initPc' = "awaitMic"
            /\ token' = Head(w2m).data
       ELSE UNCHANGED <<pc, orphanPc, initPc, token>>
    /\ UNCHANGED <<pageState, dc, mic, workerAlive, isConnected,
                   isConnecting, effectIsConnected, orphanDc, nConnects,
                   m2w, idleInConnect, history>>

\* getUserMedia resolves: addTrack throws when the connection was closed
\* meanwhile; otherwise the data channel is created and stored in its ref.
connectMicGranted ==
    /\ initPc = "awaitMic"
    /\ mic' = "live"
    /\ IF pc # "new"
       THEN /\ connectCatch("InvalidStateError")
            /\ UNCHANGED <<dc, orphanDc>>
       ELSE /\ dc' = "connecting"
            /\ orphanDc' = orphanDc + (IF Unclosed(dc) THEN 1 ELSE 0)
            /\ initPc' = "awaitOffer"
            /\ UNCHANGED <<error, status, isConnecting, isConnected,
                           effectIsConnected>>
    /\ UNCHANGED <<isDataChannelReady, pc, workerAlive, token,
                   orphanPc, nConnects, queues,
                   idleInConnect, history>>

\* getUserMedia rejects.
connectMicDenied ==
    /\ initPc = "awaitMic"
    /\ connectCatch("Permission denied")
    /\ UNCHANGED <<isDataChannelReady, pc, dc, mic, workerAlive, token,
                   orphanPc, orphanDc, nConnects, queues,
                   idleInConnect, history>>

\* createOffer and setLocalDescription resolve and the offer is posted,
\* or they reject on a closed connection.
connectOfferCreated ==
    /\ initPc = "awaitOffer"
    /\ IF pc # "new"
       THEN /\ connectCatch("InvalidStateError")
            /\ UNCHANGED <<pc, m2w>>
       ELSE /\ pc' = "local"
            /\ initPc' = "done"
            /\ m2w' = IF workerAlive
                      THEN Append(m2w, WMsg("GET_REMOTE_DESCRIPTION",
                                            OfferData(token), ""))
                      ELSE m2w
            /\ UNCHANGED <<error, status, isConnecting, isConnected,
                           effectIsConnected>>
    /\ UNCHANGED <<isDataChannelReady, dc, mic, workerAlive, token,
                   orphanPc, orphanDc, nConnects, w2m,
                   idleInConnect, history>>

\* REMOTE_DESCRIPTION_RECEIVED
connectOnRemoteDescriptionReceived ==
    /\ workerAlive /\ w2m # <<>>
    /\ Head(w2m).type = "REMOTE_DESCRIPTION_RECEIVED"
    /\ w2m' = Tail(w2m)
    /\ IF Truthy(Head(w2m).data) /\ pc # "none"
       THEN LET r == setRemoteDescription(pc, Head(w2m).data.v) IN
            IF r.ok
            THEN /\ pc' = "stable"
                 /\ status' = "Connecting..."
                 /\ UNCHANGED <<error, isConnecting>>
            ELSE /\ error' = Str(r.message)
                 /\ isConnecting' = FALSE
                 /\ UNCHANGED <<pc, status>>
       ELSE UNCHANGED <<pc, status, error, isConnecting>>
    /\ UNCHANGED <<isDataChannelReady, messages, transcripts,
                   activeFunctions, completedFunctions, dc, mic, workerAlive,
                   closeEvent, initPc, token, isConnected, effectIsConnected,
                   orphanPc, orphanDc, nConnects, m2w, timers, sent,
                   history,
                   registry, route, inputMessage>>

\* ERROR
connectOnWorkerError ==
    /\ workerAlive /\ w2m # <<>> /\ Head(w2m).type = "ERROR"
    /\ w2m' = Tail(w2m)
    /\ error' = Str(IF Head(w2m).error # "" THEN Head(w2m).error
                    ELSE "Unknown error occurred")
    /\ status' = "Error"
    /\ isConnecting' = FALSE
    /\ isConnected' = FALSE
    /\ EffectOfLastRender
    /\ UNCHANGED <<isDataChannelReady, messages, transcripts,
                   activeFunctions, completedFunctions, platform, initPc,
                   token, orphanPc, orphanDc, nConnects,
                   m2w, timers, sent, history,
                   registry, route, inputMessage>>

\* dc.onopen
connectDcOnOpen ==
    /\ dc = "connecting" /\ pc = "stable"
    /\ dc' = "open"
    /\ isDataChannelReady' = TRUE
    /\ status' = "Ready"
    /\ isConnecting' = FALSE
    /\ UNCHANGED <<error, pc, mic, workerAlive, initPc, token, isConnected,
                   effectIsConnected, orphanPc, orphanDc, nConnects, queues,
                   idleInConnect, history>>

\* The transport closes the channel; dc.onclose runs.
connectDcOnClose ==
    /\ dc \in {"connecting", "open"}
    /\ dc' = "closed"
    /\ isDataChannelReady' = FALSE
    /\ UNCHANGED <<status, error, pc, mic, workerAlive, initPc, token,
                   variant, queues, idleInConnect, history>>

NextConnect ==
    \/ initializeConnection
    \/ clickDisconnect
    \/ effectCleanup
    \/ unmountConnect
    \/ workerInitConnection
    \/ workerGetRemoteDescription
    \/ connectOnTokenReceived
    \/ connectMicGranted
    \/ connectMicDenied
    \/ connectOfferCreated
    \/ connectOnRemoteDescriptionReceived
    \/ connectOnWorkerError
    \/ connectDcOnOpen
    \/ connectDcOnClose

SpecConnect == InitConnect /\ [][NextConnect]_vars

\* ------------------------------------------------------------- properties
Registered == {"get_weather"}

\* The indices of the response.function.response frames sent for an id,
\* and of the accepted call frames with that id.
IsResponseFor(f, i) == f.type = "response.function.response" /\ f.id = i
ResponseIndices(i) == {k \in 1..Len(sent) : IsResponseFor(sent[k], i)}
Responses(i) == Cardinality(ResponseIndices(i))
Calls(i) == Cardinality({k \in 1..Len(accepted) : accepted[k].id = i})
Idle == BagToSet(running) = {}

\* A step that handles one inbound frame of the given kind.
FrameStep(kind) == nFrames' = nFrames + 1 /\ lastEvent' = kind

\* C1: the deltas that arrived since the last user message (or since the
\* start) are all in the last message, an assistant message, concatenated
\* in arrival order: none lost, duplicated or reordered.
C1_DeltasConcatenated ==
    sinceUser # <<>> =>
        /\ messages # <<>>
        /\ Last(messages).role = "assistant"
        /\ Last(messages).content = Flatten(sinceUser)

C1_Witness ==
    /\ Len(messages) = 2
    /\ messages[1].role = "user"
    /\ sinceUser = << <<"a">>, <<"b">> >>
    /\ messages[2].content = <<"a", "b">>

\* C2 as stated: a delta is appended to the last assistant message when
\* the event before it was a delta, and starts a new entry when a user
\* message, a transcript frame or a function-call frame came before it.
C2_AppendIffNothingInterleaved ==
    [][FrameStep("delta") =>
          /\ lastEvent = "delta" => Len(messages') = Len(messages)
          /\ lastEvent \in {"user", "transcript", "function"}
                 => Len(messages') = Len(messages) + 1]_vars

\* C2 amended: a delta is appended to the last message if and only if an
\* earlier delta arrived and no user message was submitted since; frames
\* of other kinds in between do not start a new entry.  Otherwise the
\* delta starts a new assistant entry.
C2_AppendIffNoUserMessageSince ==
    [][FrameStep("delta") =>
          IF sinceUser # <<>>
          THEN /\ Len(messages') = Len(messages)
               /\ Front(messages') = Front(messages)
               /\ Last(messages').content
                      = Last(messages).content \o Last(sinceUser')
          ELSE messages' = Append(messages,
                                  [role |-> "assistant",
                                   content |-> Last(sinceUser')])]_vars

C2_Witness ==
    /\ lastEvent = "delta"
    /\ Len(sinceUser) = 2
    /\ Len(transcripts) = 1
    /\ Len(messages) = 1

\* C3: on a channel that stayed open, once no invocation is in flight,
\* every id has exactly as many responses as accepted call frames: one
\* response for each call.
C3_OneResponsePerCall ==
    (Idle /\ dc = "open") => \A i \in Ids : Responses(i) = Calls(i)

\* C4: for every id at most one handler invocation is executed and at
\* most one response is emitted, however many call frames carry the id.
C4_DuplicateIdExecutedOnce ==
    \A i \in Ids : executed[i] <= 1 /\ Responses(i) <= 1

\* The invocations of a name that is not registered: accepted, in flight,
\* completed.
Unregistered(x) == x.name \notin Registered
AcceptedUnregistered ==
    Cardinality({k \in 1..Len(accepted) : Unregistered(accepted[k])})
RunningUnregistered ==
    LET U == {c \in BagToSet(running) : Unregistered(c)} IN
    BagCardinality([c \in U |-> running[c]])
CompletedUnregistered ==
    Cardinality({k \in 1..Len(completedFunctions) :
                    Unregistered(completedFunctions[k])})

\* C5: a call of a name without handler never rejects: each such call is
\* in flight or has one completed result, with the call's id and name, a
\* null result and an error text; and every response sent for such a name
\* carries an error object.
C5_UnregisteredNameYieldsError ==
    /\ \A c \in thrown : ~Unregistered(c)
    /\ AcceptedUnregistered = RunningUnregistered + CompletedUnregistered
    /\ \A k \in 1..Len(completedFunctions) :
          LET r == completedFunctions[k] IN
          Unregistered(r) =>
              /\ \E j \in 1..Len(accepted) :
                    accepted[j] = [id |-> r.id, name |-> r.name]
              /\ r.result = NULL
              /\ Truthy(r.error)
    /\ \A k \in 1..Len(sent) :
          (sent[k].type = "response.function.response"
               /\ Unregistered(sent[k]))
          => /\ sent[k].response.t = "obj"
             /\ DOMAIN sent[k].response = {"t", "error"}
             /\ Truthy(sent[k].response.error)

C5_Witness ==
    /\ Idle
    /\ \E k \in 1..Len(sent) :
          /\ sent[k].type = "response.function.response"
          /\ sent[k].name = "other"
          /\ sent[k].id = "a1"
          /\ "error" \in DOMAIN sent[k].response

\* C6: an invocation whose handler failed is resolved all the same: its
\* id is out of the active map, a result with the failure message is in
\* the completed history, and on an open channel a response with an error
\* payload was sent for the id.
C6_HandlerFailureStillResolves ==
    \A c \in thrown :
        Calls(c.id) = 1 =>
            /\ c.id \notin DOMAIN activeFunctions
            /\ \E k \in 1..Len(completedFunctions) :
                  /\ completedFunctions[k].id = c.id
                  /\ Truthy(completedFunctions[k].error)
            /\ dc = "open" => Responses(c.id) = 1

\* C7: a frame that is not JSON is dropped: status, error, conversation,
\* transcripts, the function sets and the timers are unchanged, nothing
\* is sent, and neither the channel nor the peer connection is closed.
C7_MalformedFrameDropped ==
    [][FrameStep("malformed") =>
          UNCHANGED <<status, error, isDataChannelReady, messages,
                      transcripts, activeFunctions, completedFunctions,
                      running, pendingResp, sent, dc, pc, workerAlive,
                      m2w>>]_vars

C7_Witness ==
    /\ lastEvent = "malformed"
    /\ dc = "open"
    /\ status = "Ready"
    /\ messages # <<>>

\* C8: after the signaling endpoint answered with a non-2xx status the
\* worker has posted ERROR and never REMOTE_DESCRIPTION_RECEIVED, the
\* channel is not open, nothing was sent, the conversation is empty, and
\* once the ERROR message is handled the status is Error with a non-empty
\* error string.
C8_SignalingRejected ==
    sigRejected =>
        /\ "ERROR" \in workerPosted
        /\ "REMOTE_DESCRIPTION_RECEIVED" \notin workerPosted
        /\ dc # "open"
        /\ ~isDataChannelReady
        /\ messages = <<>> /\ transcripts = <<>> /\ sent = <<>>
        /\ (\A k \in 1..Len(w2m) : w2m[k].type # "ERROR")
               => status = "Error" /\ Truthy(error)

C8_Witness ==
    /\ sigRejected
    /\ status = "Error"
    /\ error = Str("Failed to get remote description: 401 - unauthorized")

\* C9: send is called on the data channel only while the channel is open.
C9_SendOnlyWhenOpen == failedSends = {}

\* C10: the teardown leaves no held resource unreleased: after the step
\* the microphone stream is not live, and the data channel and the peer
\* connection are closed.
C10_TeardownReleasesAll ==
    [][(~unmounted /\ unmounted') =>
          /\ mic' # "live"
          /\ dc' \notin {"connecting", "open"}
          /\ pc' \in {"none", "closed"}]_vars

\* The steps in which a connection attempt fails: getUserMedia rejects;
\* the page handles the worker's ERROR for a rejected signaling request;
\* the page handles an answer that setRemoteDescription rejects.
MicDeniedStep == initPc = "awaitMic" /\ initPc' = "done" /\ mic' = "none"
HandledStep(type) ==
    w2m # <<>> /\ Head(w2m).type = type /\ w2m' = Tail(w2m)
SignalingFailedStep == sigRejected /\ HandledStep("ERROR")
AnswerRejectedStep ==
    /\ HandledStep("REMOTE_DESCRIPTION_RECEIVED")
    /\ Truthy(Head(w2m).data)
    /\ pc \notin {"none", "closed"}
    /\ ~setRemoteDescription(pc, Head(w2m).data.v).ok

\* C11: each of the three failures of the connection establishment
\* (microphone denied, signaling failed, answer rejected by
\* setRemoteDescription) sets the status to Error and a non-empty error
\* string, and starts no retry: nothing is posted to the worker and the
\* peer connection is not replaced.
C11_EstablishmentFailureIsError ==
    [][(MicDeniedStep \/ SignalingFailedStep \/ AnswerRejectedStep) =>
          /\ status' = "Error"
          /\ Truthy(error')
          /\ m2w' = m2w
          /\ pc' = pc]_vars

\* The place of a status in the order of a connection attempt.
StatusRank(s) ==
    CASE s = "Initializing..." -> 0
      [] s = "Connecting..." -> 1
      [] s = "Ready" -> 2
      [] OTHER -> 3

SettledCalls ==
    {c \in BagToSet(running) :
        c \notin BagToSet(running') \/ running'[c] < running[c]}

\* C13: an invocation in flight when the channel closed is not cancelled:
\* when its delay ends it is appended to the completed history and its id
\* leaves the active map; send is not called for its response, and the
\* skipped write is written to the debug log.
C13_CloseDoesNotCancelInvocation ==
    [][\A c \in SettledCalls :
          dc # "open" =>
              /\ completedFunctions' # completedFunctions
              /\ Last(completedFunctions').id = c.id
              /\ c.id \notin DOMAIN activeFunctions'
              /\ sent' = sent
              /\ failedSends' = failedSends
              /\ logged' # <<>>]_vars

\* C14: a frame that parses to an event of a type without branch is
\* ignored: it is written to the debug log, and status, error,
\* conversation, transcripts, the function sets and the timers are
\* unchanged, nothing is sent or posted to the worker, and the channel
\* and the peer connection stay as they are.
C14_UnknownTypeIgnored ==
    [][FrameStep("unknown") =>
          /\ UNCHANGED <<status, error, isDataChannelReady, messages,
                         transcripts, activeFunctions, completedFunctions,
                         running, pendingResp, sent, dc, pc, workerAlive,
                         m2w>>
          /\ logged' = <<"Received event">>]_vars

C14_Witness ==
    /\ lastEvent = "unknown"
    /\ dc = "open"
    /\ status = "Ready"
    /\ messages # <<>>
    /\ DOMAIN activeFunctions # {}

\* C15: a function-call frame whose arguments are not JSON, or that has
\* no function field, is dropped: the active map, the completed history
\* and the invocations in flight are unchanged, no invocation starts,
\* nothing is sent, the exception is written to the debug log, and the
\* channel stays open for the frames that follow.
C15_BadFunctionCallDropped ==
    [][FrameStep("dropped") =>
          /\ UNCHANGED <<activeFunctions, completedFunctions, running,
                         accepted, executed, sent, status, error, messages,
                         transcripts, pc, workerAlive, m2w>>
          /\ Last(logged') = "Error processing function call"
          /\ dc' = "open"]_vars

\* A frame with the id a1 was dropped while the call a2 was in flight.
C15_Witness ==
    /\ lastEvent = "dropped"
    /\ dc = "open"
    /\ DOMAIN activeFunctions = {"a2"}
    /\ ~Idle

\* The conversation, the transcript list and the active map that result
\* from handling a sequence of inputs one after the other, each to its
\* end, in the order of the sequence.
RECURSIVE FoldMessages(_)
FoldMessages(ins) ==
    IF ins = <<>> THEN <<>>
    ELSE LET acc == FoldMessages(Front(ins))
             in == Last(ins)
         IN
         CASE in.kind = "user" ->
                  Append(acc, [role |-> "user", content |-> in.text])
           [] in.kind = "delta" ->
                  IF acc # <<>> /\ Last(acc).role = "assistant"
                  THEN [acc EXCEPT ![Len(acc)].content = @ \o in.text]
                  ELSE Append(acc, [role |-> "assistant",
                                    content |-> in.text])
           [] OTHER -> acc
RECURSIVE FoldTranscripts(_)
FoldTranscripts(ins) ==
    IF ins = <<>> THEN <<>>
    ELSE IF Last(ins).kind = "transcript"
    THEN Append(FoldTranscripts(Front(ins)), Last(ins).text)
    ELSE FoldTranscripts(Front(ins))
RECURSIVE FoldActive(_)
FoldActive(ins) ==
    IF ins = <<>> THEN EmptyMap
    ELSE IF Last(ins).kind = "function"
    THEN LET acc == FoldActive(Front(ins)) IN
         [x \in DOMAIN acc \cup {Last(ins).call.id} |->
             IF x = Last(ins).call.id THEN Last(ins).call ELSE acc[x]]
    ELSE FoldActive(Front(ins))

\* C16: the conversation and the transcript list are the result of
\* handling the inputs one at a time in arrival order, and so is the
\* active map as long as no invocation has completed (completion removes
\* entries).
C16_FramesFoldedInOrder ==
    /\ messages = FoldMessages(arrived)
    /\ transcripts = FoldTranscripts(arrived)
    /\ completedFunctions = <<>> => activeFunctions = FoldActive(arrived)

\* A delta, a function call and a second delta arrived in this order.
C16_Witness ==
    /\ Len(arrived) = 3
    /\ arrived[1].kind = "delta" /\ arrived[1].text = <<"a">>
    /\ arrived[2].kind = "function"
    /\ arrived[3].kind = "delta" /\ arrived[3].text = <<"b">>
    /\ Len(messages) = 1
    /\ DOMAIN activeFunctions = {"a1"}

\* C17: a transcript frame whose transcript is a string appends exactly
\* that string as one entry at the end of the transcript list and leaves
\* the conversation unchanged, whatever deltas came before; a delta that
\* comes after leaves the transcript list unchanged, and so does a frame
\* whose field is not a string.
C17_TranscriptAppended ==
    [][/\ FrameStep("transcript") =>
              /\ transcripts' = Append(transcripts, Last(arrived').text)
              /\ messages' = messages
       /\ (FrameStep("delta") \/ FrameStep("ignored")
               \/ FrameStep("ignoredDelta"))
              => transcripts' = transcripts]_vars

\* A delta, the transcript h, the empty transcript.
C17_Witness ==
    /\ lastEvent = "transcript"
    /\ transcripts = << <<"h">>, <<>> >>
    /\ Len(messages) = 1
    /\ Last(messages).role = "assistant"

\* C18: every response.function.response frame sent carries the id of a
\* function-call frame accepted before, and no response with that id was
\* sent before it.
C18_ResponseIdSeenAndUnresolved ==
    \A k \in 1..Len(sent) :
        sent[k].type = "response.function.response" =>
            /\ \E j \in 1..Len(accepted) : accepted[j].id = sent[k].id
            /\ \A j \in 1..(k - 1) : ~IsResponseFor(sent[j], sent[k].id)

\* C19: after /api/session answered with JSON that has no
\* client_secret.value, the worker has posted ERROR and never
\* TOKEN_RECEIVED; no peer connection or data channel exists, the
\* microphone was not requested, no signaling request was made, and once
\* the ERROR message is handled the status is Error with an error string.
C19_MissingTokenAborts ==
    tokenMissing =>
        /\ "ERROR" \in workerPosted
        /\ workerPosted \cap {"TOKEN_RECEIVED",
                              "REMOTE_DESCRIPTION_RECEIVED"} = {}
        /\ pc = "none" /\ dc = "none"
        /\ mic = "none" /\ initPc = "idle"
        /\ m2w = <<>> /\ ~sigRejected
        /\ (\A k \in 1..Len(w2m) : w2m[k].type # "ERROR")
               => status = "Error" /\ Truthy(error)

C19_Witness ==
    /\ tokenMissing
    /\ w2m = <<>>
    /\ status = "Error"
    /\ error = Str("Failed to get valid session token")

\* C20: in a connection attempt the local description is created and set
\* at most once, at most one signaling request is made, at most one
\* answer is delivered and setRemoteDescription is called at most once;
\* in an attempt that got its channel open each of them happened exactly
\* once.
C20_DescriptionsExactlyOnce ==
    /\ \A f \in DOMAIN handshake : handshake[f] <= 1
    /\ (status = "Ready" \/ dc = "open")
           => \A f \in DOMAIN handshake : handshake[f] = 1

C20_Witness ==
    /\ status = "Ready"
    /\ dc = "open"
    /\ pc = "stable"
    /\ handshake = [offers |-> 1, requests |-> 1, answers |-> 1,
                    applies |-> 1]

\* The results in the completed history that carry an id.
Completed(i) ==
    Cardinality({k \in 1..Len(completedFunctions) :
                    completedFunctions[k].id = i})

\* C21: invocations run beside the dispatch of further frames, and for
\* each of them the start precedes the end and the end produces exactly
\* one response: no id has more results than accepted calls, and on an
\* open channel the step in which an invocation ends appends exactly one
\* response.function.response frame with its id.
C21_InvocationEndsWithOneResponse ==
    [][/\ \A i \in Ids : Completed(i)' <= Calls(i)'
       /\ \A c \in SettledCalls :
             dc = "open" =>
                 /\ Len(sent') = Len(sent) + 1
                 /\ IsResponseFor(Last(sent'), c.id)]_vars

\* C22: one invocation record per id: an invocation in flight has its id
\* in the active map; once no invocation is in flight the active map is
\* empty; an id has at most one result in the completed history, and an
\* id with a result is not in the active map.
C22_OneInvocationRecordPerId ==
    \A i \in Ids :
        /\ (\E c \in BagToSet(running) : c.id = i)
               => i \in DOMAIN activeFunctions
        /\ Idle => i \notin DOMAIN activeFunctions
        /\ Completed(i) <= 1
        /\ Completed(i) > 0 => i \notin DOMAIN activeFunctions

\* C23: a send on a channel that is not open is swallowed: the step in
\* which send throws leaves the error string and the status as they were,
\* puts nothing on the channel and starts no second attempt.
C23_FailedSendSwallowed ==
    [][failedSends' # failedSends =>
          /\ error' = error
          /\ status' = status
          /\ sent' = sent
          /\ m2w' = m2w
          /\ pendingResp' < pendingResp]_vars

\* The three ways a connection attempt fails before the channel exists:
\* the worker answered INIT_CONNECTION with ERROR (the only ERROR posted
\* before a signaling request), getUserMedia rejected, the signaling
\* endpoint answered non-2xx.
TokenFailed == "ERROR" \in workerPosted /\ handshake.requests = 0
MicFailed == initPc = "done" /\ mic = "none"
AttemptFailed == TokenFailed \/ MicFailed \/ sigRejected
\* The requests to the worker that lead to a token fetch or a signaling
\* fetch and are still queued.
QueuedRequests(q) ==
    {k \in 1..Len(q) : q[k].type \in {"INIT_CONNECTION",
                                       "GET_REMOTE_DESCRIPTION"}}

\* C24: after a failed attempt no token request and no signaling request
\* is issued: in every state after the failure none is queued for the
\* worker (the worker fetches only when it takes one from the queue), and
\* the signaling fetches stay at the one that failed, or at none when the
\* attempt failed before it.
C24_NoRequestAfterFailure ==
    AttemptFailed =>
        /\ QueuedRequests(m2w) = {}
        /\ handshake.requests = (IF sigRejected THEN 1 ELSE 0)
C24_Witness ==
    /\ TokenFailed /\ status = "Error"
    /\ m2w = <<>> /\ w2m = <<>>
    /\ nFrames = 0 /\ unmounted

\* C25: a response.text.delta frame whose delta is not a string changes
\* nothing in the conversation state: the message list is the same list
\* (no message added, none modified), and the transcripts and the
\* function records are as they were.
C25_NonStringDeltaChangesNothing ==
    [][FrameStep("ignoredDelta") =>
          UNCHANGED <<messages, transcripts, activeFunctions,
                      completedFunctions, sinceUser, arrived>>]_vars
\* A delta made a message, then a delta that is not a string arrived.
C25_Witness ==
    /\ lastEvent = "ignoredDelta"
    /\ Len(messages) = 1 /\ messages[1].content = <<"a">>
    /\ Len(arrived) = 1

\* C26: the steps of the handshake happen in one order.  Each step that
\* has happened implies the one before it: the microphone is asked for
\* only with a token, the local description is set only with the
\* microphone, the signaling request is made (and is queued) only after
\* the local description is set, an answer is applied only after the
\* request, and the channel is open and the status Ready only after an
\* answer was applied.
C26_HandshakeOrder ==
    /\ initPc # "idle" => "TOKEN_RECEIVED" \in workerPosted
    /\ mic = "live" => "TOKEN_RECEIVED" \in workerPosted
    /\ handshake.offers > 0 => mic = "live"
    /\ handshake.requests > 0 => handshake.offers > 0
    /\ \A k \in 1..Len(m2w) :
           m2w[k].type = "GET_REMOTE_DESCRIPTION" => handshake.offers > 0
    /\ handshake.applies > 0 => handshake.requests > 0
    /\ pc = "stable" => handshake.applies > 0
    /\ (dc = "open" \/ status \in {"Connecting...", "Ready"}
            \/ isDataChannelReady)
           => /\ handshake.applies > 0
              /\ pc \in {"stable", "closed"}
C26_Witness ==
    /\ status = "Ready" /\ dc = "open"
    /\ "TOKEN_RECEIVED" \in workerPosted /\ mic = "live"
    /\ handshake.offers = 1 /\ handshake.requests = 1
    /\ handshake.applies = 1

C28_SingleSession ==
    /\ orphanPc = 0 /\ orphanDc = 0
    /\ (~isConnected /\ ~isConnecting /\ EffectsFlushed)
           => pc = "none" /\ dc = "none" /\ ~workerAlive
\* A second Connect after a signaling failure, and one after Disconnect.
C28_Witness ==
    /\ nConnects = 3 /\ sigRejected
    /\ status = "Ready" /\ dc = "open" /\ pc = "stable"
    /\ handshake.requests = 3

\* The definition of the first register call under a name.
FirstRegistered(n) ==
    LET ks == {k \in 1..Len(registerCalls) : registerCalls[k].name = n}
    IN registerCalls[CHOOSE k \in ks : \A j \in ks : k <= j]

\* C29: getAllDefinitions returns one definition per name registered, and
\* for each name the definition that was registered first under it.
C29_FirstRegistrationKept ==
    LET defs == getAllDefinitions IN
    /\ \A i, j \in 1..Len(defs) : defs[i].name = defs[j].name => i = j
    /\ {defs[k].name : k \in 1..Len(defs)}
           = {registerCalls[k].name : k \in 1..Len(registerCalls)}
    /\ \A k \in 1..Len(defs) : defs[k] = FirstRegistered(defs[k].name)

\* A step of the worker: it takes the request at the head of its queue.
WorkerStep == workerAlive /\ m2w # <<>> /\ m2w' = Tail(m2w)
\* The replies that belong to a request.
RepliesTo(type) ==
    IF type = "INIT_CONNECTION" THEN {"TOKEN_RECEIVED", "ERROR"}
    ELSE IF type = "GET_REMOTE_DESCRIPTION"
    THEN {"REMOTE_DESCRIPTION_RECEIVED", "ERROR"}
    ELSE IF type = "FORMAT_MESSAGE" THEN {"MESSAGE_FORMATTED"}
    ELSE {}

\* C30: the worker answers each request it handles with exactly one
\* message, of a kind that belongs to the request: one message is added
\* at the end of the queue to the page, and nothing else in it changes.
C30_OneReplyPerRequest ==
    [][WorkerStep =>
          /\ Len(w2m') = Len(w2m) + 1
          /\ SubSeq(w2m', 1, Len(w2m)) = w2m
          /\ Last(w2m').type \in RepliesTo(Head(m2w).type)]_vars
\* The three requests were answered with their success replies.
C30_Witness ==
    /\ {"TOKEN_RECEIVED", "REMOTE_DESCRIPTION_RECEIVED", "MESSAGE_FORMATTED"}
           \subseteq workerPosted
    /\ m2w = <<>>
    /\ w2m # <<>> /\ Last(w2m).type = "MESSAGE_FORMATTED"

\* C31: whenever the status is Error the error string is set, and the
\* step that makes the status Error changes nothing of the state the page
\* shows but the status and the error string.
C31_ErrorStatusHasErrorString ==
    [][/\ status' = "Error" => error' # NULL
       /\ (status # "Error" /\ status' = "Error")
              => UNCHANGED <<isDataChannelReady, messages, transcripts,
                             activeFunctions, completedFunctions>>]_vars
\* The microphone was refused.
C31_Witness ==
    /\ status = "Error" /\ error = Str("Permission denied")
    /\ mic = "none" /\ initPc = "done"

\* FunctionStatus shows the last three entries of the completed history.
RecentShown == 3
recentCompletedFunctions ==
    LET n == Len(completedFunctions) IN
    [k \in 1..(IF n < RecentShown THEN n ELSE RecentShown) |->
         completedFunctions[n + 1 - k]]

\* C32: the completed history is bounded: it never holds more entries
\* than the page shows.
C32_CompletedHistoryBounded == Len(completedFunctions) <= RecentShown

\* The positions of the session.update frames among the frames sent.
SessionUpdates == { i \in 1..Len(sent) : sent[i].type = "session.update" }

\* C33: once the channel has opened, session.update with the function
\* definitions is the first frame sent on it and is sent once; before the
\* channel opens nothing is sent.
C33_SessionUpdateFirstAndOnce ==
    /\ dc \in {"none", "connecting"} => sent = <<>>
    /\ (status = "Ready" \/ isDataChannelReady \/ dc = "open" \/ sent # <<>>)
           => /\ sent # <<>>
              /\ sent[1] = sessionUpdateEvent
              /\ SessionUpdates = {1}
\* A message and its response request went out after the session.update.
C33_Witness ==
    /\ Len(sent) = 3
    /\ sent[1] = sessionUpdateEvent
    /\ sent[2].type = "conversation.item.create"
    /\ sent[3].type = "response.create"

\* The positions among the first n frames sent of the frames of a type.
SentOfType(type, n) == { i \in 1..n : sent[i].type = type }

\* C34: each conversation.item.create is sent before its response.create
\* (the k-th response request follows the k-th item, also when two
\* submissions interleave), and once no 100 ms wait is pending every item
\* sent has been followed by exactly one response.create.
C34_ItemThenOneResponse ==
    /\ \A n \in 0..Len(sent) :
          Cardinality(SentOfType("response.create", n))
              <= Cardinality(SentOfType("conversation.item.create", n))
    /\ pendingResp = 0
           => Cardinality(SentOfType("response.create", Len(sent)))
                  = Cardinality(SentOfType("conversation.item.create",
                                           Len(sent)))

\* The user entries of the conversation with a text, the items sent with
\* it, and the submissions of it still on their way through the worker.
UserEntries(text) ==
    { i \in 1..Len(messages) :
          messages[i].role = "user" /\ messages[i].content = text }
ItemsSent(text) == { i \in 1..Len(sent) : sent[i] = formatUserMessage(text) }
BeingFormatted(text) ==
    Cardinality({ i \in 1..Len(m2w) :
                      m2w[i] = WMsg("FORMAT_MESSAGE", text, "") })
        + Cardinality({ i \in 1..Len(w2m) :
                            /\ w2m[i].type = "MESSAGE_FORMATTED"
                            /\ w2m[i].data.userMessage
                                   = formatUserMessage(text) })

\* C35: every user entry of the conversation has been sent as a
\* conversation.item.create with the same text, or is still on its way
\* through the worker and will be.
C35_UserMessagesReachPeer ==
    \A text \in Inputs :
        Cardinality(UserEntries(text))
            <= Cardinality(ItemsSent(text)) + BeingFormatted(text)

\* C36: sendMessage on a blank text field, or while the channel is not
\* ready, changes nothing: the conversation, the text field and the error
\* string stay as they are and no FORMAT_MESSAGE is posted to the worker.
C36_BlankOrNotReadyIsNoOp ==
    [][(/\ nSubmits' = nSubmits + 1
        /\ Trim(inputMessage) = <<>> \/ ~isDataChannelReady)
           => UNCHANGED <<messages, transcripts, inputMessage, error,
           m2w>>]_vars
\* A submission left the conversation empty and posted nothing; the field
\* holds a typed text on a channel that has closed.
C36_Witness ==
    /\ nSubmits = 1
    /\ inputMessage = <<"u">>
    /\ ~isDataChannelReady /\ dc = "closed"
    /\ messages = <<>> /\ m2w = <<>> /\ w2m = <<>> /\ Len(sent) = 1

\* C37: once every invocation's delay has ended and no further frame has
\* arrived, the active map is empty and the completed history has one
\* entry per accepted function-call frame, on an open channel and on a
\* closed one.
C37_ActiveSetDrains ==
    Idle => /\ DOMAIN activeFunctions = {}
            /\ Len(completedFunctions) = Len(accepted)

\* What disconnectConnection leaves behind: the status, the readiness flag
\* and the three refs.
Disconnected ==
    /\ status = "Disconnected"
    /\ ~isDataChannelReady
    /\ dc = "none" /\ pc = "none" /\ ~workerAlive

\* C38: once disconnectConnection has run, the status is Disconnected, the
\* channel is marked not ready and the three refs are null, and every step
\* other than a new initializeConnection keeps it so, also the steps of
\* the earlier attempt that complete afterwards.
C38_DisconnectedUntilConnect ==
    [][/\ status' = "Disconnected" => Disconnected'
       /\ (Disconnected /\ nConnects > 0 /\ nConnects' = nConnects)
              => Disconnected']_vars
\* disconnectConnection has run while the earlier attempt waits for the
\* microphone.
C38_Witness ==
    /\ Disconnected /\ nConnects = 1
    /\ initPc = "awaitMic" /\ token # NULL

\* The upstream requests made for the first n requests served.
RECURSIVE FetchedUpTo(_)
FetchedUpTo(n) ==
    IF n = 0 THEN 0
    ELSE FetchedUpTo(n - 1) + (IF served[n].fetched THEN 1 ELSE 0)

\* C39: the route answers with the upstream session JSON only when the
\* upstream call succeeded; without a configured key it makes no upstream
\* call and answers 500; on an upstream status that is not ok and on a
\* thrown error it answers 500 with one of its own generic bodies, which
\* holds nothing of the upstream error.
C39_SessionRouteReplies ==
    /\ Len(upstreamCalls) = FetchedUpTo(Len(served))
    /\ \A n \in 1..Len(served) :
          LET s == served[n] IN
          /\ s.reply.status \in {200, 500}
          /\ s.reply.status = 200
                => /\ Truthy(s.key) /\ ~s.outcome.threw /\ s.outcome.ok
                   /\ s.outcome.text = JSONText(s.reply.body)
          /\ ~Truthy(s.key)
                => /\ ~s.fetched
                   /\ s.reply.status = 500
          /\ (Truthy(s.key) /\ (s.outcome.threw \/ ~s.outcome.ok))
                => /\ s.reply.status = 500
                   /\ s.reply.body = FailedToCreateSession
          /\ s.reply.status = 500
                => /\ s.reply.body
                       \in {InternalServerError, FailedToCreateSession}
                   /\ s.reply.body # upstreamErrorJSON
\* A request without key, one refused upstream with an error body, and one
\* that succeeded.
C39_Witness ==
    /\ Len(served) = 3 /\ Len(upstreamCalls) = 2
    /\ ~Truthy(served[1].key) /\ served[1].reply.status = 500
    /\ served[2].outcome.code = "401"
    /\ served[2].outcome.text = JSONText(upstreamErrorJSON)
    /\ served[2].reply = NextResponse(FailedToCreateSession, 500)
    /\ served[3].reply = NextResponse(sessionJSON, 200)
=============================================================================
